---- MODULE Spec2Model ----
(***************************************************************************)
(* The order book engine of btse_sdk (src/btse_sdk/orderbook_cache.py):    *)
(* OSSOrderBookCache, its message handler process_message, reset and the   *)
(* sorted read views; ThreadSafeOrderBookCache and the threads that share  *)
(* it; the streaming Session BTSEWebSocketBase (src/btse_sdk/ws.py) with   *)
(* its receive loops and the threads that call it; and the signed request  *)
(* of the REST client (src/btse_sdk/core.py).                              *)
(*                                                                         *)
(* Python values are tagged records: None (also what dict.get returns for  *)
(* a missing key), PyStr, PyInt, PyList and PyDict.  A str is a sequence  *)
(* of tokens, so that `in` can search it; the strings of a level entry,    *)
(* which the code only hands to float(), are bare literals.                *)
(* A float is an integer here: every literal of the model has an integral  *)
(* value, and float() maps several literals to the same value.             *)
(***************************************************************************)
EXTENDS Integers, Sequences, FiniteSets, TLC

VARIABLES
    symbol,         \* OSSOrderBookCache.symbol
    bids,           \* OSSOrderBookCache.bids: price -> size
    asks,           \* OSSOrderBookCache.asks: price -> size
    seq_num,        \* OSSOrderBookCache.seq_num: None or Int
    prev_seq_num,   \* OSSOrderBookCache.prev_seq_num: None or Int
    out_of_sync,    \* OSSOrderBookCache.out_of_sync
    last,           \* the call that has just returned (or raised), with its
                    \* arguments, the engine as it was on entry and the result
    chain,          \* history of the applied messages since construction or reset()
    log,            \* the level lists of the messages applied since construction,
                    \* the last reset() or the last applied snapshot
    \* ThreadSafeOrderBookCache and the threads that call it
    lock,           \* ThreadSafeOrderBookCache._lock: the owner and the depth of the RLock
    run,            \* what each thread is executing, with its locals
    delivered,      \* the frames the transport has delivered to _on_message, in order
    handled,        \* the calls of the message handler, in order
    reported,       \* the errors handed to the on-error callback, in order
    committed,      \* the engine as the last whole operation left it
    \* BTSEWebSocketBase
    ws,             \* BTSEWebSocketBase._ws: 0 (None) or the transport handle
    thread,         \* BTSEWebSocketBase._thread: 0 (None) or the background thread
    connected,      \* BTSEWebSocketBase._connected: the open signal
    config,         \* api_key, api_secret, ws_path, auto_auth
    conn,           \* the transport handles start() has created, each with its
                    \* connection and its receive loop
    call            \* what each thread is executing on the Session

engineVars == <<symbol, bids, asks, seq_num, prev_seq_num, out_of_sync>>
cacheVars == <<lock, run, delivered, handled, reported, committed>>
sessionVars == <<ws, thread, connected, config, conn, call>>

vars == <<engineVars, last, chain, log, cacheVars, sessionVars>>

----------------------------------------------------------------------------
(* Bounds of the model. *)

\* seqNum and prevSeqNum of a message are drawn from 1..MaxSeq
MaxSeq == 3
\* a message carries at most MaxLevels level entries, bids and asks together
MaxLevels == 2
\* levels() is called with depth None or 0..MaxDepth
MaxDepth == 3
\* the history of applied level lists is followed up to MaxLog messages
MaxLog == 2
\* the transport delivers at most MaxFrames frames
MaxFrames == 3
\* start() is called at most MaxStarts times on a Session, by the threads
\* that manage its lifecycle
MaxStarts == 2
\* calls that send are begun while fewer than MaxWrites frames are written
MaxWrites == 1

----------------------------------------------------------------------------
(* Python values. *)

\* a str is its sequence of tokens: "" is <<>>, and Tok(s) the str of one token
None == [t |-> "none"]
PyStr(s) == [t |-> "str", v |-> s]
Tok(s) == PyStr(<<s>>)
PyInt(n) == [t |-> "int", v |-> n]
PyList(l) == [t |-> "list", v |-> l]
PyDict(d) == [t |-> "dict", v |-> d]

\* x == y on the values above (no two tags ever compare equal)
PyEq(x, y) == x.t = y.t /\ (x.t = "none" \/ x.v = y.v)

\* bool(x): None, "", 0, [] and {} are false
Truthy(x) ==
    CASE x.t = "none" -> FALSE
      [] x.t = "str"  -> x.v # <<>>
      [] x.t = "int"  -> x.v # 0
      [] x.t = "list" -> x.v # <<>>
      [] x.t = "dict" -> DOMAIN x.v # {}
      [] x.t = "level" -> TRUE

\* d.get(key, default): every PyDict of the model has every key it is asked
\* for, a missing key holding None (no message of the model holds an explicit
\* null, for which get would return None and not the default)
Get(d, key, default) == IF d.v[key].t = "none" THEN default ELSE d.v[key]

\* `needle in haystack` for a str given as a sequence of tokens
Contains(haystack, needle) == \E i \in DOMAIN haystack : haystack[i] = needle

\* the literals float() accepts, and the value of each
FloatLiterals == {"0", "0.0", "1", "1.0", "2", "2.0"}

float(s) ==
    CASE s \in {"0", "0.0"} -> 0
      [] s \in {"1", "1.0"} -> 1
      [] s \in {"2", "2.0"} -> 2

----------------------------------------------------------------------------
(* OSSOrderBookCache *)

EmptyBook == [p \in {} |-> 0]

\* side_book.pop(price, None)
Pop(side_book, price) == [p \in DOMAIN side_book \ {price} |-> side_book[p]]

\* side_book[price] = size
Put(side_book, price, size) ==
    [p \in DOMAIN side_book \cup {price} |-> IF p = price THEN size ELSE side_book[p]]

\* (mutant) a size of zero is stored like any other
ApplyLevel_StoresZero(side_book, price, size) == Put(side_book, price, size)

\* (mutant) a size of zero removes nothing: it overwrites the level it names
ApplyLevel_ZeroOverwrites(side_book, price, size) ==
    IF size = 0 /\ price \notin DOMAIN side_book THEN side_book
    ELSE Put(side_book, price, size)

\* one iteration of the loop of _apply_levels on a well-formed entry
ApplyLevel(side_book, price, size) ==
    IF size = 0 THEN Pop(side_book, price) ELSE Put(side_book, price, size)

\* _apply_levels: the book after the loop and whether the loop raised
\* (ValueError: an entry that does not unpack into two, a literal float()
\* rejects); the entries before the one that raised stay applied
RECURSIVE apply_levels(_, _)
apply_levels(side_book, levels) ==
    IF levels = <<>> THEN [book |-> side_book, raised |-> FALSE]
    ELSE LET entry == Head(levels) IN
         IF Len(entry) # 2 THEN [book |-> side_book, raised |-> TRUE]
         ELSE IF entry[1] \notin FloatLiterals \/ entry[2] \notin FloatLiterals
              THEN [book |-> side_book, raised |-> TRUE]
              ELSE apply_levels(ApplyLevel(side_book, float(entry[1]), float(entry[2])),
                                Tail(levels))

\* the fields of the engine, as one record
Engine == [symbol |-> symbol, bids |-> bids, asks |-> asks, seq_num |-> seq_num,
           prev_seq_num |-> prev_seq_num, out_of_sync |-> out_of_sync]

\* __init__(symbol)
NewEngine(sym) == [symbol |-> sym, bids |-> EmptyBook, asks |-> EmptyBook,
                   seq_num |-> None, prev_seq_num |-> None, out_of_sync |-> FALSE]

\* (mutant) no gap check at all
update_seq_NoGapCheck(e, seq, prev_seq) ==
    IF seq.t = "none" THEN e
    ELSE [e EXCEPT !.prev_seq_num = prev_seq, !.seq_num = seq]

\* (mutant) the gap check compares with the held prev_seq_num
update_seq_ComparesPrev(e, seq, prev_seq) ==
    IF seq.t = "none" THEN e
    ELSE [e EXCEPT !.out_of_sync =
                       IF e.seq_num.t # "none" /\ prev_seq.t # "none"
                          /\ ~PyEq(prev_seq, e.prev_seq_num)
                       THEN TRUE ELSE @,
                   !.prev_seq_num = prev_seq,
                   !.seq_num = seq]

\* (mutant) out_of_sync is assigned the outcome of each gap check
update_seq_Recomputes(e, seq, prev_seq) ==
    IF seq.t = "none" THEN e
    ELSE [e EXCEPT !.out_of_sync =
                       IF e.seq_num.t # "none" /\ prev_seq.t # "none"
                       THEN ~PyEq(prev_seq, e.seq_num) ELSE @,
                   !.prev_seq_num = prev_seq,
                   !.seq_num = seq]

\* (mutant) the gap check does not ask whether a sequence number is held
update_seq_NoHeldCheck(e, seq, prev_seq) ==
    IF seq.t = "none" THEN e
    ELSE [e EXCEPT !.out_of_sync =
                       IF prev_seq.t # "none" /\ ~PyEq(prev_seq, e.seq_num)
                       THEN TRUE ELSE @,
                   !.prev_seq_num = prev_seq,
                   !.seq_num = seq]

\* (mutant) a message without seqNum still records its prevSeqNum
update_seq_RecordsPrev(e, seq, prev_seq) ==
    IF seq.t = "none" THEN [e EXCEPT !.prev_seq_num = prev_seq]
    ELSE [e EXCEPT !.out_of_sync =
                       IF e.seq_num.t # "none" /\ prev_seq.t # "none"
                          /\ ~PyEq(prev_seq, e.seq_num)
                       THEN TRUE ELSE @,
                   !.prev_seq_num = prev_seq,
                   !.seq_num = seq]

\* (mutant) on a gap the held sequence fields are kept
update_seq_KeepsOnGap(e, seq, prev_seq) ==
    IF seq.t = "none" THEN e
    ELSE IF e.seq_num.t # "none" /\ prev_seq.t # "none" /\ ~PyEq(prev_seq, e.seq_num)
         THEN [e EXCEPT !.out_of_sync = TRUE]
         ELSE [e EXCEPT !.prev_seq_num = prev_seq, !.seq_num = seq]

\* (mutant) a message without prevSeqNum is compared as well
update_seq_NoneIsGap(e, seq, prev_seq) ==
    IF seq.t = "none" THEN e
    ELSE [e EXCEPT !.out_of_sync =
                       IF e.seq_num.t # "none" /\ ~PyEq(prev_seq, e.seq_num)
                       THEN TRUE ELSE @,
                   !.prev_seq_num = prev_seq,
                   !.seq_num = seq]

\* _update_seq(seq, prev_seq)
update_seq(e, seq, prev_seq) ==
    IF seq.t = "none" THEN e
    ELSE [e EXCEPT !.out_of_sync =
                       IF e.seq_num.t # "none" /\ prev_seq.t # "none"
                          /\ ~PyEq(prev_seq, e.seq_num)
                       THEN TRUE ELSE @,
                   !.prev_seq_num = prev_seq,
                   !.seq_num = seq]

\* (mutant) the asks survive
reset_KeepsAsks(e) ==
    [e EXCEPT !.bids = EmptyBook, !.seq_num = None, !.prev_seq_num = None,
              !.out_of_sync = FALSE]

\* (mutant) prev_seq_num survives
reset_KeepsPrevSeq(e) ==
    [e EXCEPT !.bids = EmptyBook, !.asks = EmptyBook, !.seq_num = None,
              !.out_of_sync = FALSE]

\* (mutant) seq_num survives
reset_KeepsSeqNum(e) ==
    [e EXCEPT !.bids = EmptyBook, !.asks = EmptyBook, !.prev_seq_num = None,
              !.out_of_sync = FALSE]

\* (mutant) out_of_sync survives
reset_KeepsOutOfSync(e) ==
    [e EXCEPT !.bids = EmptyBook, !.asks = EmptyBook, !.seq_num = None,
              !.prev_seq_num = None]

\* reset()
reset(e) == [e EXCEPT !.bids = EmptyBook, !.asks = EmptyBook, !.seq_num = None,
                      !.prev_seq_num = None, !.out_of_sync = FALSE]

\* how a call of process_message ends: the engine it leaves, whether it
\* raised, and whether it went through to _update_seq (line 87)
Raised(e) == [eng |-> e, raised |-> TRUE, applied |-> FALSE]
Returned(e, applied) == [eng |-> e, raised |-> FALSE, applied |-> applied]

\* lines 77-87 of process_message: the two _apply_levels calls on e, then
\* _update_seq; an exception leaves what was done before it
ApplyBoth(e, bidLevels, askLevels, seq, prev_seq) ==
    LET b == apply_levels(e.bids, bidLevels)
        e1 == [e EXCEPT !.bids = b.book]
    IN  IF b.raised THEN Raised(e1)
        ELSE LET a == apply_levels(e1.asks, askLevels)
                 e2 == [e1 EXCEPT !.asks = a.book]
             IN  IF a.raised THEN Raised(e2)
                 ELSE Returned(update_seq(e2, seq, prev_seq), TRUE)

\* (mutant) only a missing or empty topic is irrelevant
IrrelevantTopic_EmptyOnly(topic) == topic.v = <<>>

\* line 60: the topic names neither a book update nor an L1 snapshot
IrrelevantTopic(topic) ==
    ~Contains(topic.v, "update:") /\ ~Contains(topic.v, "snapshotL1:")

\* (mutant) the comparison is the wrong way round
OtherSymbolNamed_Inverted(e, sym) == Truthy(sym) /\ PyEq(sym, Tok(e.symbol))

\* (mutant) a message that names no symbol counts as another instrument's
OtherSymbolNamed_MissingIsOther(e, sym) == ~PyEq(sym, Tok(e.symbol))

\* line 68: the message names another symbol than the engine's
OtherSymbolNamed(e, sym) == Truthy(sym) /\ ~PyEq(sym, Tok(e.symbol))

\* (mutant) the alias snapshotL1 is forgotten
IsSnapshotType_NoAlias(ob_type) == PyEq(ob_type, Tok("snapshot"))

\* line 77: ob_type in ("snapshot", "snapshotL1")
IsSnapshotType(ob_type) ==
    PyEq(ob_type, Tok("snapshot")) \/ PyEq(ob_type, Tok("snapshotL1"))

\* (mutant) every type that is no snapshot is applied as a delta
IsDeltaType_Any(ob_type) == TRUE

\* line 81: ob_type == "delta"
IsDeltaType(ob_type) == PyEq(ob_type, Tok("delta"))

\* process_message(msg): the engine after the call and whether it raised
\* (AttributeError: msg has no get; TypeError: `in` on a topic that is a
\* number, while a list is searched for an equal element; ValueError from
\* _apply_levels)
process_message(e, msg) ==
    IF msg.t # "dict" THEN Raised(e)
    ELSE
    LET topic == Get(msg, "topic", PyStr(<<>>)) IN
    IF topic.t \notin {"str", "list"} THEN Raised(e)
    ELSE IF IrrelevantTopic(topic) THEN Returned(e, FALSE)
    ELSE
    LET data == Get(msg, "data", None) IN
    IF data.t # "dict" THEN Returned(e, FALSE)
    ELSE
    LET sym == Get(data, "symbol", None) IN
    IF OtherSymbolNamed(e, sym) THEN Returned(e, FALSE)
    ELSE
    LET ob_type == Get(data, "type", Tok("delta"))
        bidsOr == Get(data, "bids", None)
        asksOr == Get(data, "asks", None)
        bidLevels == IF Truthy(bidsOr) THEN bidsOr.v ELSE <<>>
        askLevels == IF Truthy(asksOr) THEN asksOr.v ELSE <<>>
        seq == Get(data, "seqNum", None)
        prev_seq == Get(data, "prevSeqNum", None)
    IN  IF IsSnapshotType(ob_type)
        THEN ApplyBoth(reset(e), bidLevels, askLevels, seq, prev_seq)
        ELSE IF IsDeltaType(ob_type)
        THEN ApplyBoth(e, bidLevels, askLevels, seq, prev_seq)
        ELSE Returned(e, FALSE)

\* _sorted_side(side): the prices of the side, sorted(keys, reverse), each
\* with its size
RECURSIVE SortedKeys(_, _)
SortedKeys(keys, reverse) ==
    IF keys = {} THEN <<>>
    ELSE LET first == IF reverse
                      THEN CHOOSE p \in keys : \A q \in keys : q <= p
                      ELSE CHOOSE p \in keys : \A q \in keys : p <= q
         IN  <<first>> \o SortedKeys(keys \ {first}, reverse)

sorted_side(e, side) ==
    LET book == IF side = "bids" THEN e.bids ELSE e.asks
        reverse == side = "bids"
        keys == SortedKeys(DOMAIN book, reverse)
    IN  [i \in 1..Len(keys) |-> [price |-> keys[i], size |-> book[keys[i]]]]

\* (mutant) the slice is one entry too long
SliceTo_OneMore(lvls, depth) ==
    LET n == Len(lvls)
        stop == IF depth + 1 < n THEN depth + 1 ELSE n
    IN  SubSeq(lvls, 1, stop)

\* lvls[:depth] for an int depth: a negative depth counts from the end
SliceTo(lvls, depth) ==
    LET n == Len(lvls)
        stop == IF depth >= 0 THEN (IF depth < n THEN depth ELSE n)
                ELSE (IF n + depth > 0 THEN n + depth ELSE 0)
    IN  SubSeq(lvls, 1, stop)

\* levels(side, depth=None)
levels(e, side, depth) ==
    LET lvls == sorted_side(e, side)
    IN  IF depth.t = "none" THEN lvls ELSE SliceTo(lvls, depth.v)

\* a Level object: the dataclass defines neither __bool__ nor __len__, so it
\* is truthy whatever its price and size
PyLevel(lvl) == [t |-> "level", v |-> lvl]

\* the float n / 2.0, kept as the fraction it is
HalfOf(n) == [t |-> "float", num |-> n, den |-> 2]

\* best_bid(): lvls[0] if lvls else None
best_bid(e) ==
    LET lvls == levels(e, "bids", PyInt(1))
    IN  IF lvls # <<>> THEN PyLevel(lvls[1]) ELSE None

\* (mutant) the best ask is read off the bid side
best_ask_ReadsBids(e) ==
    LET lvls == levels(e, "bids", PyInt(1))
    IN  IF lvls # <<>> THEN PyLevel(lvls[1]) ELSE None

\* best_ask()
best_ask(e) ==
    LET lvls == levels(e, "asks", PyInt(1))
    IN  IF lvls # <<>> THEN PyLevel(lvls[1]) ELSE None

\* (mutant) the test is on the prices, so a best price of 0 counts as absent
mid_price_FalsyPrice(e) ==
    LET bid == best_bid(e)
        ask == best_ask(e)
    IN  IF ~Truthy(bid) \/ ~Truthy(ask) THEN None
        ELSE IF bid.v.price = 0 \/ ask.v.price = 0 THEN None
        ELSE HalfOf(bid.v.price + ask.v.price)

\* mid_price(): None if not bid or not ask, else (bid.price + ask.price) / 2.0
mid_price(e) ==
    LET bid == best_bid(e)
        ask == best_ask(e)
    IN  IF ~Truthy(bid) \/ ~Truthy(ask) THEN None
        ELSE HalfOf(bid.v.price + ask.v.price)

----------------------------------------------------------------------------
(* The messages the transport delivers. *)

\* the engine's symbol and another instrument's
OwnSymbol == "BTC-USD"
OtherSymbol == "ETH-USD"

\* topics as ws.py builds them (f"update:{symbol}_{grouping}", ...)
TopicUpdate == PyStr(<<"update:", OwnSymbol, "_0">>)
TopicSnapshotL1 == PyStr(<<"snapshotL1:", OwnSymbol, "_0">>)
TopicUpdateOther == PyStr(<<"update:", OtherSymbol, "_0">>)
TopicTrades == PyStr(<<"tradeHistoryApi:", OwnSymbol>>)

RelevantTopics == {TopicUpdate, TopicSnapshotL1, TopicUpdateOther}
Topics == RelevantTopics \cup {TopicTrades, None}

Symbols == {None, PyStr(<<>>), Tok(OwnSymbol), Tok(OtherSymbol)}
Types == {None, Tok("snapshot"), Tok("snapshotL1"), Tok("delta"), Tok("trade")}
SeqNums == {None} \cup {PyInt(n) : n \in 1..MaxSeq}

\* level entries [priceStr, sizeStr]
PriceLiterals == {"0", "1", "1.0"}
SizeLiterals == {"0.0", "1", "2"}
Entries == {<<p, s>> : p \in PriceLiterals, s \in SizeLiterals}

\* the lists of at most n entries
RECURSIVE LevelLists(_)
LevelLists(n) ==
    IF n = 0 THEN {<<>>}
    ELSE LET shorter == LevelLists(n - 1)
         IN  shorter \cup {Append(l, x) : l \in {l \in shorter : Len(l) = n - 1}, x \in Entries}

\* the (bids, asks) lists of a message: at most MaxLevels entries together
LevelPairs ==
    {<<b, a>> \in LevelLists(MaxLevels) \X LevelLists(MaxLevels) : Len(b) + Len(a) <= MaxLevels}

\* the bids or asks field for a level list: the key is missing when the list
\* is empty (`or []` reads a missing key and [] alike)
Levels(l) == IF l = <<>> THEN None ELSE PyList(l)

Data(sym, type, bidLevels, askLevels, seq, prev_seq) ==
    PyDict([symbol |-> sym, type |-> type, bids |-> bidLevels, asks |-> askLevels,
            seqNum |-> seq, prevSeqNum |-> prev_seq])

Frame(topic, data) == PyDict([topic |-> topic, data |-> data, raw |-> None])

\* what _on_message hands over for a frame json.loads rejects
RawFrame == PyDict([topic |-> None, data |-> None, raw |-> Tok("text")])

\* book messages for this engine in which the level lists vary
LevelFrames ==
    {Frame(TopicUpdate, Data(Tok(OwnSymbol), type, Levels(ba[1]), Levels(ba[2]), None, None)) :
        type \in {Tok("snapshot"), Tok("snapshotL1"), Tok("delta")}, ba \in LevelPairs}

\* book messages in which the sequence fields vary, with a few level lists
SeqLevelPairs ==
    { <<<<>>, <<>>>>,
      << << <<"1", "1">> >>, << <<"2", "2">> >> >>,
      << << <<"1.0", "0.0">>, <<"2", "1">> >>, <<>> >> }

SeqFrames ==
    {Frame(TopicUpdate, Data(sym, type, Levels(ba[1]), Levels(ba[2]), seq, prev_seq)) :
        sym \in {None, Tok(OwnSymbol)},
        type \in {None, Tok("snapshot"), Tok("delta")},
        ba \in SeqLevelPairs, seq \in SeqNums, prev_seq \in SeqNums}

\* messages in which the routing fields vary
RoutedFrames ==
    {Frame(topic, Data(sym, type, Levels(<< <<"1", "2">> >>), Levels(<< <<"2.0", "1">> >>),
                       seq, seq)) :
        topic \in Topics, sym \in Symbols, type \in Types, seq \in {None, PyInt(MaxSeq)}}
    \cup {Frame(topic, data) : topic \in Topics, data \in {None, PyList(<<>>)}}
    \cup {RawFrame}


----------------------------------------------------------------------------
(* The calls on the engine. *)

NoCall == [op |-> "none"]

SetEngine(e) ==
    /\ symbol' = e.symbol
    /\ bids' = e.bids
    /\ asks' = e.asks
    /\ seq_num' = e.seq_num
    /\ prev_seq_num' = e.prev_seq_num
    /\ out_of_sync' = e.out_of_sync

\* no message applied yet
NoChain == [first |-> TRUE, seqNum |-> None, inSequence |-> TRUE]

\* the history after one more applied message: the seqNum of the last one, and
\* whether each one's prevSeqNum was the seqNum of the one applied immediately
\* before it (first: none was applied yet)
Chained(c, msg) ==
    LET seq == Get(msg.v.data, "seqNum", None)
        prev_seq == Get(msg.v.data, "prevSeqNum", None)
    IN  [first |-> FALSE,
         seqNum |-> seq,
         inSequence |-> c.inSequence /\ (c.first \/ PyEq(prev_seq, c.seqNum))]

\* threading.RLock(): not held
Unlocked == [owner |-> "none", count |-> 0]

\* the threads that use one ThreadSafeOrderBookCache: the receive loop of the
\* stream, whose handler calls process_message, and the readers
Readers == {"reader"}
CacheThreads == {"loop"} \cup Readers

\* a thread that is outside every method of the cache
Resting == [at |-> "rest"]

\* the threads that call the Session, and the background thread of each
\* transport handle start() creates
Callers == {"caller1", "caller2"}
\* the threads that manage the lifecycle of a Session: they start it, close
\* it, and start it again
Owners == {"owner1", "owner2"}
LoopThreads == <<"loop1", "loop2", "loop3">>
LoopThread(h) == LoopThreads[h]
SessionThreads == Callers \cup Owners \cup {LoopThread(h) : h \in 1..MaxStarts}

\* a thread that is in no call on the Session
Uncalled == [op |-> "none", at |-> "idle", text |-> [t |-> "none"], saw |-> FALSE,
             wrote |-> <<>>, raised |-> ""]

\* the constructor arguments that matter: the credentials, the signing path,
\* auto_auth and auth_op, with their defaults
NoConfig == [api_key |-> None, api_secret |-> None, ws_path |-> None, auto_auth |-> FALSE,
             auth_op |-> Tok("login")]

\* OSSOrderBookCache(symbol), ThreadSafeOrderBookCache(symbol) and
\* BTSEWebSocketBase(url, on_message, ...) just constructed, no thread started
InitEngine ==
    /\ symbol = OwnSymbol
    /\ bids = EmptyBook
    /\ asks = EmptyBook
    /\ seq_num = None
    /\ prev_seq_num = None
    /\ out_of_sync = FALSE
    /\ last = NoCall
    /\ chain = NoChain
    /\ log = <<>>

InitCache ==
    /\ lock = Unlocked
    /\ run = [t \in CacheThreads |-> Resting]
    /\ delivered = <<>>
    /\ handled = <<>>
    /\ reported = <<>>
    /\ committed = NewEngine(OwnSymbol)

InitSession(cfg) ==
    /\ ws = 0
    /\ thread = 0
    /\ connected = FALSE
    /\ config = cfg
    /\ conn = <<>>
    /\ call = [t \in SessionThreads |-> Uncalled]

Init == InitEngine /\ InitCache /\ InitSession(NoConfig)

\* the caller (the receive loop, a reader) is between two calls
Idle == last.op = "none"

\* the transport delivers a frame and the handler runs process_message on it
ProcessMessage(frames) ==
    /\ Idle
    /\ \E msg \in frames :
          LET r == process_message(Engine, msg) IN
          /\ SetEngine(r.eng)
          /\ last' = [op |-> "process_message", msg |-> msg, pre |-> Engine,
                      raised |-> r.raised, applied |-> r.applied]
          /\ chain' = IF r.applied THEN Chained(chain, msg) ELSE chain
    /\ UNCHANGED <<log, cacheVars, sessionVars>>

\* the caller calls reset()
Reset ==
    /\ Idle
    /\ SetEngine(reset(Engine))
    /\ last' = [op |-> "reset", pre |-> Engine]
    /\ chain' = NoChain
    /\ log' = <<>>
    /\ UNCHANGED <<cacheVars, sessionVars>>

\* a reader calls levels(side, depth)
Depths == {None} \cup {PyInt(d) : d \in 0..MaxDepth}

ReadLevels ==
    /\ Idle
    /\ \E side \in {"bids", "asks"}, depth \in Depths :
          last' = [op |-> "levels", side |-> side, depth |-> depth, pre |-> Engine,
                   ret |-> levels(Engine, side, depth)]
    /\ UNCHANGED <<engineVars, chain, log, cacheVars, sessionVars>>

\* a reader calls best_bid()
ReadBestBid ==
    /\ Idle
    /\ last' = [op |-> "best_bid", pre |-> Engine, ret |-> best_bid(Engine)]
    /\ UNCHANGED <<engineVars, chain, log, cacheVars, sessionVars>>

\* a reader calls best_ask()
ReadBestAsk ==
    /\ Idle
    /\ last' = [op |-> "best_ask", pre |-> Engine, ret |-> best_ask(Engine)]
    /\ UNCHANGED <<engineVars, chain, log, cacheVars, sessionVars>>

\* a reader calls mid_price()
ReadMidPrice ==
    /\ Idle
    /\ last' = [op |-> "mid_price", pre |-> Engine, ret |-> mid_price(Engine)]
    /\ UNCHANGED <<engineVars, chain, log, cacheVars, sessionVars>>

\* the call returns to its caller
Return ==
    /\ ~Idle
    /\ last' = NoCall
    /\ UNCHANGED <<engineVars, chain, log, cacheVars, sessionVars>>

\* the engine fed with messages whose routing and sequence fields vary
Next == ProcessMessage(SeqFrames \cup RoutedFrames) \/ Reset \/ ReadLevels \/ Return

Spec == Init /\ [][Next]_vars

\* the engine fed with book messages whose level lists vary
NextBook ==
    \/ ProcessMessage(LevelFrames)
    \/ Reset
    \/ ReadLevels
    \/ ReadBestBid
    \/ ReadBestAsk
    \/ ReadMidPrice
    \/ Return

SpecBook == Init /\ [][NextBook]_vars

----------------------------------------------------------------------------
(* What the claims speak of, read off the message and the engine and not   *)
(* off process_message.                                                    *)

\* a process_message call has returned without raising
Processed == last.op = "process_message" /\ ~last.raised

\* the data of the message, when it is an object
DataOf(msg) == msg.v.data.v

\* a relevant message: a book topic and an object as data
IsRelevant(msg) == msg.v.topic \in RelevantTopics /\ msg.v.data.t = "dict"

\* a relevant message that names the engine's symbol, or none
IsForSymbol(msg, sym) ==
    IsRelevant(msg) /\ DataOf(msg).symbol \in {None, PyStr(<<>>), Tok(sym)}

IsSnapshotMsg(msg) == DataOf(msg).type \in {Tok("snapshot"), Tok("snapshotL1")}
IsDeltaMsg(msg) == DataOf(msg).type \in {None, Tok("delta")}

\* the level list of a side ("bids", "asks") of the message; a missing list is empty
LevelsOf(msg, side) ==
    IF DataOf(msg)[side].t = "list" THEN DataOf(msg)[side].v ELSE <<>>

\* every entry of the list is a pair of numeric literals
IsWellFormed(lvls) ==
    \A i \in DOMAIN lvls : Len(lvls[i]) = 2 /\ lvls[i][1] \in FloatLiterals
                                             /\ lvls[i][2] \in FloatLiterals

\* the prices a level list names, and for each the size of its last entry
PricesIn(lvls) == {float(lvls[i][1]) : i \in DOMAIN lvls}
LastSizeIn(lvls, price) ==
    LET at == {i \in DOMAIN lvls : float(lvls[i][1]) = price}
        i == CHOOSE i \in at : \A j \in at : j <= i
    IN  float(lvls[i][2])

\* side `after` is side `before` with the list applied: a price the list names
\* is absent when its last entry has size 0 and holds that size otherwise, and
\* every other price is as before
IsApplied(before, lvls, after) ==
    /\ DOMAIN after \subseteq DOMAIN before \cup PricesIn(lvls)
    /\ \A price \in PricesIn(lvls) :
          IF LastSizeIn(lvls, price) = 0 THEN price \notin DOMAIN after
          ELSE price \in DOMAIN after /\ after[price] = LastSizeIn(lvls, price)
    /\ \A price \in DOMAIN before \ PricesIn(lvls) :
          price \in DOMAIN after /\ after[price] = before[price]

----------------------------------------------------------------------------
(* C1: after process_message of a relevant snapshot or snapshotL1 message  *)
(* for this symbol, each side is exactly the message's own level list      *)
(* applied to an empty side: the last entry of a price decides, zero sizes *)
(* are absent, nothing of the prior side survives, and a side whose list   *)
(* is missing or empty is empty.                                           *)
C1_SnapshotReplaces ==
    (Processed /\ IsForSymbol(last.msg, symbol) /\ IsSnapshotMsg(last.msg)) =>
        /\ IsApplied(EmptyBook, LevelsOf(last.msg, "bids"), bids)
        /\ IsApplied(EmptyBook, LevelsOf(last.msg, "asks"), asks)
        /\ (LevelsOf(last.msg, "bids") = <<>> => bids = EmptyBook)
        /\ (LevelsOf(last.msg, "asks") = <<>> => asks = EmptyBook)

\* a snapshot with two bid entries and no asks has replaced a book that held
\* other bid prices and asks
C1_Witness ==
    /\ Processed /\ IsForSymbol(last.msg, symbol) /\ IsSnapshotMsg(last.msg)
    /\ Len(LevelsOf(last.msg, "bids")) = 2
    /\ LevelsOf(last.msg, "asks") = <<>>
    /\ DOMAIN last.pre.bids \ PricesIn(LevelsOf(last.msg, "bids")) # {}
    /\ last.pre.asks # EmptyBook
    /\ bids # EmptyBook

(* C2: a relevant delta applies each (price, size) pair of a side's list,  *)
(* in list order, onto the existing side: size 0 removes the price (no     *)
(* error when it is absent), any other size inserts or overwrites; prices  *)
(* the list does not name keep their size, and a side changes only by its  *)
(* own list.                                                               *)
C2_DeltaApplies ==
    (/\ last.op = "process_message" /\ IsForSymbol(last.msg, symbol) /\ IsDeltaMsg(last.msg)
     /\ IsWellFormed(LevelsOf(last.msg, "bids")) /\ IsWellFormed(LevelsOf(last.msg, "asks"))) =>
        /\ ~last.raised
        /\ IsApplied(last.pre.bids, LevelsOf(last.msg, "bids"), bids)
        /\ IsApplied(last.pre.asks, LevelsOf(last.msg, "asks"), asks)

\* a delta has removed a bid price that was absent, overwritten another bid
\* price with a new size, and left non-empty asks alone
C2_Witness ==
    /\ Processed /\ IsForSymbol(last.msg, symbol) /\ IsDeltaMsg(last.msg)
    /\ \E price \in PricesIn(LevelsOf(last.msg, "bids")) \ DOMAIN last.pre.bids :
          LastSizeIn(LevelsOf(last.msg, "bids"), price) = 0
    /\ \E price \in PricesIn(LevelsOf(last.msg, "bids")) \cap DOMAIN last.pre.bids :
          price \in DOMAIN bids /\ bids[price] # last.pre.bids[price]
    /\ LevelsOf(last.msg, "asks") = <<>>
    /\ asks # EmptyBook

\* the sequence fields of the message
SeqNumOf(msg) == DataOf(msg).seqNum
PrevSeqNumOf(msg) == DataOf(msg).prevSeqNum

(* C3: when the engine holds a sequence number s and process_message       *)
(* applies a relevant delta that carries seqNum and a prevSeqNum p other   *)
(* than s, out_of_sync is true right after the call.                       *)
C3_GapDetected ==
    (/\ Processed /\ IsForSymbol(last.msg, symbol) /\ IsDeltaMsg(last.msg)
     /\ last.pre.seq_num # None
     /\ SeqNumOf(last.msg) # None
     /\ PrevSeqNumOf(last.msg) # None
     /\ PrevSeqNumOf(last.msg) # last.pre.seq_num) => out_of_sync

\* a delta with a gap has been applied to an engine that was in sync
C3_Witness ==
    /\ Processed /\ IsForSymbol(last.msg, symbol) /\ IsDeltaMsg(last.msg)
    /\ last.pre.seq_num # None /\ ~last.pre.out_of_sync
    /\ SeqNumOf(last.msg) # None
    /\ PrevSeqNumOf(last.msg) # None
    /\ PrevSeqNumOf(last.msg) # last.pre.seq_num
    /\ out_of_sync

(* C4: no false gap.  From a new or reset engine, as long as every applied *)
(* message's prevSeqNum is the seqNum of the message applied immediately   *)
(* before it, out_of_sync is false, for snapshots and deltas alike.        *)
C4_NoFalseGap == chain.inSequence => ~out_of_sync

\* an in-sequence delta has been applied on top of a held sequence number, and
\* every message before it was in sequence too
C4_Witness ==
    /\ Processed /\ last.applied /\ IsDeltaMsg(last.msg)
    /\ chain.inSequence
    /\ last.pre.seq_num # None
    /\ PrevSeqNumOf(last.msg) = last.pre.seq_num
    /\ SeqNumOf(last.msg) # None /\ SeqNumOf(last.msg) # last.pre.seq_num
    /\ ~out_of_sync

(* C5, as claimed: once out_of_sync is true it stays true after every      *)
(* process_message call, whatever the message, snapshots included.         *)
C5_StickyAsClaimed ==
    (last.op = "process_message" /\ last.pre.out_of_sync) => out_of_sync

\* the message made process_message call reset(): an applied snapshot
ResetBySnapshot ==
    last.op = "process_message" /\ IsForSymbol(last.msg, symbol) /\ IsSnapshotMsg(last.msg)

(* C5, amended: once out_of_sync is true it stays true after every         *)
(* process_message call that does not apply a snapshot or snapshotL1       *)
(* message, in-sequence messages included; it is false again only after    *)
(* reset(), which the caller calls and which process_message calls itself  *)
(* when it applies a snapshot.                                             *)
C5_StickyUntilReset ==
    /\ (last.op = "process_message" /\ last.pre.out_of_sync /\ ~ResetBySnapshot)
           => out_of_sync
    /\ (last.op # "none" /\ last.pre.out_of_sync /\ ~out_of_sync)
           => (last.op = "reset" \/ ResetBySnapshot)

\* an in-sequence delta has been applied to an engine that was out of sync,
\* and it still is
C5_Witness ==
    /\ Processed /\ last.applied /\ IsDeltaMsg(last.msg)
    /\ last.pre.out_of_sync
    /\ SeqNumOf(last.msg) # None
    /\ PrevSeqNumOf(last.msg) = last.pre.seq_num
    /\ out_of_sync

(* C6: first-message immunity.  When the engine holds no sequence number   *)
(* the next applied message never sets out_of_sync, whatever seqNum and    *)
(* prevSeqNum it carries; it only establishes the held sequence number.    *)
C6_FirstMessageImmune ==
    (Processed /\ last.pre.seq_num = None) =>
        /\ ~out_of_sync
        /\ (IsForSymbol(last.msg, symbol) /\ (IsDeltaMsg(last.msg) \/ IsSnapshotMsg(last.msg))
            /\ SeqNumOf(last.msg) # None)
               => (seq_num = SeqNumOf(last.msg) /\ prev_seq_num = PrevSeqNumOf(last.msg))

\* the first message after construction or reset was a delta with a seqNum and
\* another prevSeqNum
C6_Witness ==
    /\ Processed /\ last.applied /\ IsDeltaMsg(last.msg)
    /\ last.pre.seq_num = None
    /\ SeqNumOf(last.msg) # None
    /\ PrevSeqNumOf(last.msg) # None
    /\ seq_num = SeqNumOf(last.msg)
    /\ ~out_of_sync

C8_IrrelevantIgnored ==
    (/\ last.op = "process_message"
     /\ \/ last.msg.v.topic \in {None, TopicTrades}
        \/ last.msg.v.topic \in Topics /\ last.msg.v.data.t # "dict") =>
        ~last.raised /\ Engine = last.pre

\* the raw placeholder has left a non-empty engine as it was
C8_Witness ==
    /\ last.op = "process_message" /\ last.msg = RawFrame
    /\ last.pre.bids # EmptyBook /\ last.pre.seq_num # None
    /\ Engine = last.pre

(* C9: reset() from any state leaves bids and asks empty, seq_num and      *)
(* prev_seq_num unset and out_of_sync false and keeps symbol: the engine   *)
(* is as newly constructed for its symbol, and a second reset() changes    *)
(* nothing.                                                                *)
C9_ResetClears ==
    (last.op = "reset") =>
        /\ bids = EmptyBook /\ asks = EmptyBook
        /\ seq_num = None /\ prev_seq_num = None
        /\ ~out_of_sync
        /\ symbol = last.pre.symbol
        /\ Engine = NewEngine(last.pre.symbol)
        /\ reset(Engine) = Engine

\* reset() was called on an engine with levels, sequence numbers and out_of_sync
C9_Witness ==
    /\ last.op = "reset"
    /\ last.pre.bids # EmptyBook /\ last.pre.asks # EmptyBook
    /\ last.pre.seq_num # None /\ last.pre.prev_seq_num # None
    /\ last.pre.out_of_sync
    /\ bids = EmptyBook

\* price p comes before price q in the order of the side: descending for bids,
\* ascending for asks
ComesBefore(side, p, q) == IF side = "bids" THEN p > q ELSE p < q

(* C10: levels(side, depth) returns one entry per stored price of the side *)
(* with its stored size, no price twice, strictly descending by price for  *)
(* bids and strictly ascending for asks; all n entries when depth is       *)
(* absent, and the first min(depth, n) entries of that order, so never     *)
(* more than depth, when depth is given.                                   *)
C10_LevelsSorted ==
    (last.op = "levels") =>
        LET book == IF last.side = "bids" THEN bids ELSE asks
            n == Cardinality(DOMAIN book)
            ret == last.ret
            returned == {ret[i].price : i \in DOMAIN ret}
        IN  /\ Len(ret) = IF last.depth = None THEN n
                          ELSE IF last.depth.v < n THEN last.depth.v ELSE n
            /\ last.depth # None => Len(ret) <= last.depth.v
            /\ \A i \in DOMAIN ret :
                  ret[i].price \in DOMAIN book /\ ret[i].size = book[ret[i].price]
            /\ \A i, j \in DOMAIN ret :
                  i < j => ComesBefore(last.side, ret[i].price, ret[j].price)
            /\ \A p \in returned, q \in DOMAIN book \ returned :
                  ComesBefore(last.side, p, q)

\* levels("bids", 1) was called on a side of two prices of different sizes and
\* returned the higher one
C10_Witness ==
    /\ last.op = "levels" /\ last.side = "bids" /\ last.depth = PyInt(1)
    /\ Cardinality(DOMAIN bids) = 2
    /\ \E p, q \in DOMAIN bids : p < q /\ bids[p] # bids[q]
                                 /\ last.ret = <<[price |-> q, size |-> bids[q]]>>


\* the highest and the lowest price of a non-empty side
HighestPrice(book) == CHOOSE p \in DOMAIN book : \A q \in DOMAIN book : q <= p
LowestPrice(book) == CHOOSE p \in DOMAIN book : \A q \in DOMAIN book : p <= q

\* C11: best_bid() is absent exactly when the engine holds no bid and is
\* otherwise the bid of highest price with its stored size; best_ask() is absent
\* exactly when the engine holds no ask and is otherwise the ask of lowest price
\* with its stored size.
C11_BestOfSide ==
    /\ last.op = "best_bid" =>
          IF bids = EmptyBook THEN last.ret = None
          ELSE /\ last.ret.t = "level"
               /\ last.ret.v.price = HighestPrice(bids)
               /\ last.ret.v.size = bids[HighestPrice(bids)]
    /\ last.op = "best_ask" =>
          IF asks = EmptyBook THEN last.ret = None
          ELSE /\ last.ret.t = "level"
               /\ last.ret.v.price = LowestPrice(asks)
               /\ last.ret.v.size = asks[LowestPrice(asks)]

\* best_ask() has returned the lower of two asks while the bid side holds
\* other prices
C11_Witness ==
    /\ last.op = "best_ask"
    /\ Cardinality(DOMAIN asks) = 2
    /\ DOMAIN bids # DOMAIN asks
    /\ bids # EmptyBook
    /\ last.ret.t = "level"
    /\ last.ret.v.price = LowestPrice(asks)

\* C12: mid_price() is absent exactly when a side is empty; with both sides
\* non-empty it is (best bid price + best ask price) / 2, also when a best
\* price is 0 and when the book is crossed.
C12_MidPrice ==
    last.op = "mid_price" =>
        IF bids = EmptyBook \/ asks = EmptyBook THEN last.ret = None
        ELSE /\ last.ret.t = "float"
             /\ last.ret.den = 2
             /\ last.ret.num = HighestPrice(bids) + LowestPrice(asks)

\* mid_price() has returned 1/2 for a crossed book whose best ask is 0
C12_Witness ==
    /\ last.op = "mid_price"
    /\ bids # EmptyBook /\ asks # EmptyBook
    /\ LowestPrice(asks) = 0
    /\ HighestPrice(bids) = 1
    /\ last.ret = HalfOf(1)


----------------------------------------------------------------------------
(* The engine fed with short level lists, the applied ones kept in log. *)

\* one entry that sets price 1, one that removes it (written 1.0), one that
\* sets price 0
FoldEntries == {<<"1", "1">>, <<"1.0", "0.0">>, <<"0", "2">>}
FoldLists == {<<>>} \cup {<<x>> : x \in FoldEntries}

\* applied forms (own or no symbol; snapshot, delta or no type) and ignored
\* ones (another topic, another symbol, another type)
FoldFrames ==
    {Frame(TopicUpdate, Data(sym, type, Levels(b), Levels(a), None, None)) :
        sym \in {None, Tok(OwnSymbol)}, type \in {None, Tok("snapshot"), Tok("delta")},
        b \in FoldLists, a \in FoldLists}
    \cup {Frame(TopicTrades, Data(Tok(OwnSymbol), Tok("delta"), Levels(b), Levels(a), None, None)) :
        b \in FoldLists, a \in FoldLists}
    \cup {Frame(TopicUpdate, Data(Tok(OtherSymbol), Tok("delta"), Levels(b), Levels(a), None, None)) :
        b \in FoldLists, a \in FoldLists}
    \cup {Frame(TopicUpdate, Data(Tok(OwnSymbol), Tok("trade"), Levels(b), Levels(a), None, None)) :
        b \in FoldLists, a \in FoldLists}

\* an applied message: relevant topic, matching or absent symbol, recognised type
IsAppliedMsg(msg, sym) ==
    IsForSymbol(msg, sym) /\ (IsSnapshotMsg(msg) \/ IsDeltaMsg(msg))

\* the history after the message: an applied snapshot starts it anew, an
\* applied delta extends it, an ignored message leaves it
Logged(lg, msg, sym) ==
    LET lists == [bids |-> LevelsOf(msg, "bids"), asks |-> LevelsOf(msg, "asks")]
    IN  IF ~IsAppliedMsg(msg, sym) THEN lg
        ELSE IF IsSnapshotMsg(msg) THEN <<lists>>
        ELSE Append(lg, lists)

\* the transport delivers a frame and the handler runs process_message on it
ProcessLogged ==
    /\ Idle
    /\ \E msg \in FoldFrames :
          LET r == process_message(Engine, msg) IN
          /\ Len(Logged(log, msg, symbol)) <= MaxLog
          /\ SetEngine(r.eng)
          /\ last' = [op |-> "process_message", msg |-> msg, pre |-> Engine,
                      raised |-> r.raised, applied |-> r.applied]
          /\ chain' = IF r.applied THEN Chained(chain, msg) ELSE chain
          /\ log' = Logged(log, msg, symbol)
    /\ UNCHANGED <<cacheVars, sessionVars>>

NextFold == ProcessLogged \/ Reset \/ Return

SpecFold == Init /\ [][NextFold]_vars

\* the level-application rule, as the specification words it: a price the
\* list names is absent when its last entry has size 0 and holds that size
\* otherwise, and every other price is as before
Rule(book, lvls) ==
    LET named == PricesIn(lvls)
        kept == (DOMAIN book \ named) \cup {p \in named : LastSizeIn(lvls, p) # 0}
    IN  [p \in kept |-> IF p \in named THEN LastSizeIn(lvls, p) ELSE book[p]]

\* the rule folded over one side of the history, in order
RECURSIVE Folded(_, _, _)
Folded(book, lg, side) ==
    IF lg = <<>> THEN book
    ELSE Folded(Rule(book, Head(lg)[side]), Tail(lg), side)

\* C15: in every reachable state bids and asks are the level-application rule
\* folded, in processing order, over the level lists of exactly the messages
\* applied since construction, the last reset() or the last applied snapshot
\* (itself included); ignored messages contribute nothing.
C15_BookIsFold ==
    /\ bids = Folded(EmptyBook, log, "bids")
    /\ asks = Folded(EmptyBook, log, "asks")

\* an ignored message with a bid entry has just been processed while the book
\* is the fold of two applied messages, a price of which was removed again
C15_Witness ==
    /\ Processed
    /\ ~IsAppliedMsg(last.msg, symbol)
    /\ LevelsOf(last.msg, "bids") # <<>>
    /\ Len(log) = 2
    /\ log[1].bids = <<<<"1", "1">>>>
    /\ log[2].bids = <<<<"1.0", "0.0">>>>
    /\ bids = EmptyBook
    /\ asks # EmptyBook


----------------------------------------------------------------------------
(* ThreadSafeOrderBookCache fed by the receive loop of a stream            *)
(* (orderbook_with_cache) and read by another thread.  The engine's        *)
(* methods run in the steps they are made of: process_message is its       *)
(* routing, reset() for a snapshot, the two _apply_levels calls and        *)
(* _update_seq; snapshot() and mid_price() read one side after the other.  *)

\* the frame texts the transport delivers, and what json.loads makes of each:
\* a snapshot, a delta that follows it (in two spellings), a delta that
\* leaves a gap, and a text that is no JSON
TextSnapshot == "{snapshot 1}"
TextDelta == "{delta 1->2}"
TextDeltaSpaced == "{ delta 1->2 }"
TextGap == "{delta 1->3}"
TextGarbage == "pong"
JsonTexts == {TextSnapshot, TextDelta, TextDeltaSpaced, TextGap}
FrameTexts == JsonTexts \cup {TextGarbage}

MsgSnapshot ==
    Frame(TopicUpdate, Data(Tok(OwnSymbol), Tok("snapshot"),
                            Levels(<< <<"0", "1">>, <<"1", "2">> >>),
                            Levels(<< <<"1", "1">> >>), PyInt(1), None))
MsgDelta ==
    Frame(TopicUpdate, Data(Tok(OwnSymbol), Tok("delta"),
                            Levels(<< <<"1.0", "0.0">> >>),
                            Levels(<< <<"0", "2">> >>), PyInt(2), PyInt(1)))
MsgGap ==
    Frame(TopicUpdate, Data(Tok(OwnSymbol), Tok("delta"),
                            Levels(<< <<"1", "1">> >>),
                            Levels(<< <<"1", "0.0">> >>), PyInt(3), PyInt(1)))

\* json.loads(message): the decoded message, or a failure
json_loads(message) ==
    CASE message = TextSnapshot -> [ok |-> TRUE, v |-> MsgSnapshot]
      [] message \in {TextDelta, TextDeltaSpaced} -> [ok |-> TRUE, v |-> MsgDelta]
      [] message = TextGap -> [ok |-> TRUE, v |-> MsgGap]
      [] OTHER -> [ok |-> FALSE, v |-> None]

\* {"raw": message}
Raw(message) == PyDict([topic |-> None, data |-> None, raw |-> Tok(message)])

\* (mutant) a frame that does not decode is dropped
on_message_DropsUndecodable(message) ==
    LET decoded == json_loads(message)
    IN  [handler |-> IF decoded.ok THEN <<decoded.v>> ELSE <<>>,
         on_error |-> <<>>, raised |-> FALSE]

\* (mutant) a frame that does not decode is handed over as bare text
on_message_BareText(message) ==
    LET decoded == json_loads(message)
    IN  [handler |-> <<IF decoded.ok THEN decoded.v ELSE Tok(message)>>,
         on_error |-> <<>>, raised |-> FALSE]

\* _on_message(ws, message): the arguments of the handler calls it makes, of
\* the on-error calls it makes, and whether it raises before the handler runs
on_message(message) ==
    LET decoded == json_loads(message)
    IN  [handler |-> <<IF decoded.ok THEN decoded.v ELSE Raw(message)>>,
         on_error |-> <<>>, raised |-> FALSE]

\* (mutant) the lock excludes nobody
CanAcquire_Always(l, t) == TRUE

\* RLock.acquire(): free, or held by the same thread
CanAcquire(l, t) == l.owner \in {"none", t}

\* (mutant) the method runs without taking the lock
Acquired_NotTaken(l, t) == l

Acquired(l, t) == [owner |-> t, count |-> l.count + 1]

\* RLock.release()
Released(l) ==
    IF l.count = 1 THEN Unlocked ELSE [l EXCEPT !.count = l.count - 1]

\* where a thread is in a method of the cache: waiting for the lock
\* ("acquire"), inside the engine ("body", at a stage), leaving the with
\* block ("exit"), returned ("done")
Running(at, op, arg, stage, loc, ret, raised) ==
    [at |-> at, op |-> op, arg |-> arg, stage |-> stage, loc |-> loc,
     ret |-> ret, raised |-> raised]

Entering(op, arg) == Running("acquire", op, arg, "", None, None, FALSE)
AtStage(r, stage, loc) == [r EXCEPT !.at = "body", !.stage = stage, !.loc = loc]
Exiting(r, ret, raised) == [r EXCEPT !.at = "exit", !.stage = "", !.ret = ret, !.raised = raised]

\* lines 59-75 of process_message: what the call is going to do
Plan(e, msg) ==
    IF msg.t # "dict" THEN [kind |-> "raise"]
    ELSE
    LET topic == Get(msg, "topic", PyStr(<<>>)) IN
    IF topic.t # "str" THEN [kind |-> "raise"]
    ELSE IF IrrelevantTopic(topic) THEN [kind |-> "return"]
    ELSE
    LET data == Get(msg, "data", None) IN
    IF data.t # "dict" THEN [kind |-> "return"]
    ELSE
    LET sym == Get(data, "symbol", None) IN
    IF OtherSymbolNamed(e, sym) THEN [kind |-> "return"]
    ELSE
    LET ob_type == Get(data, "type", Tok("delta"))
        bidsOr == Get(data, "bids", None)
        asksOr == Get(data, "asks", None)
    IN  [kind |-> IF IsSnapshotType(ob_type) THEN "snapshot"
                  ELSE IF PyEq(ob_type, Tok("delta")) THEN "delta" ELSE "return",
         bidLevels |-> IF Truthy(bidsOr) THEN bidsOr.v ELSE <<>>,
         askLevels |-> IF Truthy(asksOr) THEN asksOr.v ELSE <<>>,
         seq |-> Get(data, "seqNum", None),
         prev_seq |-> Get(data, "prevSeqNum", None)]

\* the transport hands the next frame to _on_message
Deliver ==
    /\ run["loop"] = Resting
    /\ Len(delivered) < MaxFrames
    /\ \E message \in FrameTexts :
          /\ delivered' = Append(delivered, message)
          /\ run' = [run EXCEPT !["loop"] = [at |-> "on_message", message |-> message]]
    /\ UNCHANGED <<engineVars, last, chain, log, lock, handled, reported, committed, sessionVars>>

\* _on_message decodes the frame and calls the handler, on_msg, which calls
\* cache.process_message(msg)
OnMessage ==
    /\ run["loop"].at = "on_message"
    /\ LET message == run["loop"].message
           r == on_message(message)
       IN  /\ handled' = handled \o [i \in DOMAIN r.handler |->
                                        [frame |-> message, data |-> r.handler[i]]]
           /\ reported' = reported \o r.on_error
           /\ run' = [run EXCEPT !["loop"] =
                        IF r.handler = <<>> THEN Resting
                        ELSE Entering("process_message", [msg |-> r.handler[1]])]
    /\ UNCHANGED <<engineVars, last, chain, log, lock, delivered, committed, sessionVars>>

\* a reader calls a method of the cache
ReaderDepths == {None, PyInt(1)}
ReaderCalls ==
    {[op |-> op, arg |-> None] : op \in {"out_of_sync", "reset", "best_bid", "best_ask", "mid_price"}}
    \cup {[op |-> "levels", arg |-> [side |-> side, depth |-> depth]] :
            side \in {"bids", "asks"}, depth \in ReaderDepths}
    \cup {[op |-> "snapshot", arg |-> [depth |-> depth]] : depth \in ReaderDepths}

Enter(t) ==
    /\ run[t] = Resting
    /\ \E c \in ReaderCalls : run' = [run EXCEPT ![t] = Entering(c.op, c.arg)]
    /\ UNCHANGED <<engineVars, last, chain, log, lock, delivered, handled, reported,
                   committed, sessionVars>>

\* with self._lock: the thread enters once the lock is free
FirstStage(op) ==
    CASE op = "process_message" -> "route"
      [] op = "mid_price" -> "bid"
      [] op = "snapshot" -> "bids"
      [] OTHER -> "call"

Acquire(t) ==
    /\ run[t].at = "acquire"
    /\ CanAcquire(lock, t)
    /\ lock' = Acquired(lock, t)
    /\ run' = [run EXCEPT ![t] = AtStage(run[t], FirstStage(run[t].op), None)]
    /\ UNCHANGED <<engineVars, last, chain, log, delivered, handled, reported,
                   committed, sessionVars>>

\* the thread of run[t] is in the engine, in method op at the stage
At(t, op, stage) == run[t].at = "body" /\ run[t].op = op /\ run[t].stage = stage

CacheFrame == <<last, chain, log, lock, delivered, handled, reported, committed, sessionVars>>

\* process_message, lines 59-75: topic, data, symbol, type, the lists, seqNum
Route(t) ==
    /\ At(t, "process_message", "route")
    /\ LET plan == Plan(Engine, run[t].arg.msg)
       IN  run' = [run EXCEPT ![t] =
                     CASE plan.kind = "raise" -> Exiting(run[t], None, TRUE)
                       [] plan.kind = "return" -> Exiting(run[t], None, FALSE)
                       [] plan.kind = "snapshot" -> AtStage(run[t], "reset", plan)
                       [] plan.kind = "delta" -> AtStage(run[t], "bids", plan)]
    /\ UNCHANGED <<engineVars, CacheFrame>>

\* process_message, line 78: self.reset()
ResetForSnapshot(t) ==
    /\ At(t, "process_message", "reset")
    /\ SetEngine(reset(Engine))
    /\ run' = [run EXCEPT ![t] = AtStage(run[t], "bids", run[t].loc)]
    /\ UNCHANGED CacheFrame

\* process_message, lines 79 and 82: self._apply_levels(self.bids, bids)
ApplyBids(t) ==
    /\ At(t, "process_message", "bids")
    /\ LET b == apply_levels(bids, run[t].loc.bidLevels)
       IN  /\ bids' = b.book
           /\ run' = [run EXCEPT ![t] = IF b.raised THEN Exiting(run[t], None, TRUE)
                                        ELSE AtStage(run[t], "asks", run[t].loc)]
    /\ UNCHANGED <<symbol, asks, seq_num, prev_seq_num, out_of_sync, CacheFrame>>

\* process_message, lines 80 and 83: self._apply_levels(self.asks, asks)
ApplyAsks(t) ==
    /\ At(t, "process_message", "asks")
    /\ LET a == apply_levels(asks, run[t].loc.askLevels)
       IN  /\ asks' = a.book
           /\ run' = [run EXCEPT ![t] = IF a.raised THEN Exiting(run[t], None, TRUE)
                                        ELSE AtStage(run[t], "seq", run[t].loc)]
    /\ UNCHANGED <<symbol, bids, seq_num, prev_seq_num, out_of_sync, CacheFrame>>

\* process_message, line 87: self._update_seq(seq, prev_seq)
UpdateSeq(t) ==
    /\ At(t, "process_message", "seq")
    /\ SetEngine(update_seq(Engine, run[t].loc.seq, run[t].loc.prev_seq))
    /\ run' = [run EXCEPT ![t] = Exiting(run[t], None, FALSE)]
    /\ UNCHANGED CacheFrame

\* reset(): self._cache.reset()
DoReset(t) ==
    /\ At(t, "reset", "call")
    /\ SetEngine(reset(Engine))
    /\ run' = [run EXCEPT ![t] = Exiting(run[t], None, FALSE)]
    /\ UNCHANGED CacheFrame

\* out_of_sync: return self._cache.out_of_sync
DoOutOfSync(t) ==
    /\ At(t, "out_of_sync", "call")
    /\ run' = [run EXCEPT ![t] = Exiting(run[t], out_of_sync, FALSE)]
    /\ UNCHANGED <<engineVars, CacheFrame>>

\* levels(side, depth), best_bid(), best_ask()
DoLevels(t) ==
    /\ At(t, "levels", "call")
    /\ run' = [run EXCEPT ![t] =
                 Exiting(run[t], levels(Engine, run[t].arg.side, run[t].arg.depth), FALSE)]
    /\ UNCHANGED <<engineVars, CacheFrame>>

DoBestBid(t) ==
    /\ At(t, "best_bid", "call")
    /\ run' = [run EXCEPT ![t] = Exiting(run[t], best_bid(Engine), FALSE)]
    /\ UNCHANGED <<engineVars, CacheFrame>>

DoBestAsk(t) ==
    /\ At(t, "best_ask", "call")
    /\ run' = [run EXCEPT ![t] = Exiting(run[t], best_ask(Engine), FALSE)]
    /\ UNCHANGED <<engineVars, CacheFrame>>

\* mid_price(), line 107: bid = self.best_bid() reads the bids
MidPriceBid(t) ==
    /\ At(t, "mid_price", "bid")
    /\ run' = [run EXCEPT ![t] = AtStage(run[t], "ask", [bids |-> bids])]
    /\ UNCHANGED <<engineVars, CacheFrame>>

\* mid_price(), lines 108-111: ask = self.best_ask() reads the asks, and the
\* result is made of the two
MidPriceAsk(t) ==
    /\ At(t, "mid_price", "ask")
    /\ run' = [run EXCEPT ![t] =
                 Exiting(run[t], mid_price([Engine EXCEPT !.bids = run[t].loc.bids]), FALSE)]
    /\ UNCHANGED <<engineVars, CacheFrame>>

\* snapshot(depth), line 166: "bids": self._cache.levels("bids", depth)
SnapshotBids(t) ==
    /\ At(t, "snapshot", "bids")
    /\ run' = [run EXCEPT ![t] =
                 AtStage(run[t], "asks", [bids |-> levels(Engine, "bids", run[t].arg.depth)])]
    /\ UNCHANGED <<engineVars, CacheFrame>>

\* snapshot(depth), line 167: "asks": self._cache.levels("asks", depth)
SnapshotAsks(t) ==
    /\ At(t, "snapshot", "asks")
    /\ run' = [run EXCEPT ![t] =
                 Exiting(run[t], [bids |-> run[t].loc.bids,
                                  asks |-> levels(Engine, "asks", run[t].arg.depth)], FALSE)]
    /\ UNCHANGED <<engineVars, CacheFrame>>

\* the end of the with block, also when the body raised: the lock is released
Mutating == {"process_message", "reset"}

Release(t) ==
    /\ run[t].at = "exit"
    /\ lock' = Released(lock)
    /\ committed' = IF run[t].op \in Mutating THEN Engine ELSE committed
    /\ run' = [run EXCEPT ![t].at = "done"]
    /\ UNCHANGED <<engineVars, last, chain, log, delivered, handled, reported, sessionVars>>

\* the method has returned: the reader has its value, the receive loop goes
\* back to waiting for a frame
Finish(t) ==
    /\ run[t].at = "done"
    /\ run' = [run EXCEPT ![t] = Resting]
    /\ UNCHANGED <<engineVars, CacheFrame>>

NextThreads ==
    \/ Deliver
    \/ OnMessage
    \/ \E t \in Readers : Enter(t)
    \/ \E t \in CacheThreads : Acquire(t)
    \/ \E t \in CacheThreads : Route(t)
    \/ \E t \in CacheThreads : ResetForSnapshot(t)
    \/ \E t \in CacheThreads : ApplyBids(t)
    \/ \E t \in CacheThreads : ApplyAsks(t)
    \/ \E t \in CacheThreads : UpdateSeq(t)
    \/ \E t \in CacheThreads : DoReset(t)
    \/ \E t \in CacheThreads : DoOutOfSync(t)
    \/ \E t \in CacheThreads : DoLevels(t)
    \/ \E t \in CacheThreads : DoBestBid(t)
    \/ \E t \in CacheThreads : DoBestAsk(t)
    \/ \E t \in CacheThreads : MidPriceBid(t)
    \/ \E t \in CacheThreads : MidPriceAsk(t)
    \/ \E t \in CacheThreads : SnapshotBids(t)
    \/ \E t \in CacheThreads : SnapshotAsks(t)
    \/ \E t \in CacheThreads : Release(t)
    \/ \E t \in CacheThreads : Finish(t)

SpecThreads == Init /\ [][NextThreads]_vars

\* the steps of process_message leave what the whole call leaves
StepsAgree ==
    \A t \in CacheThreads :
        (run[t].at = "exit" /\ run[t].op = "process_message") =>
            LET r == process_message(committed, run[t].arg.msg)
            IN  Engine = r.eng /\ run[t].raised = r.raised


\* the thread is inside the engine: between entering the with block and
\* leaving it
InEngine(t) == run[t].at \in {"body", "exit"}

\* another thread is in the middle of process_message or reset()
MidOperation(t) == run[t].at = "body" /\ run[t].op \in Mutating

\* a method of the cache has computed its value and is about to return it
Returning(t, op) == run[t].at = "exit" /\ run[t].op = op

\* C13: snapshot(depth) returns bids and asks that both come from one engine
\* state between two whole operations: levels('bids', depth) and
\* levels('asks', depth) of that state are the two returned lists, under any
\* interleaving with process_message or reset() in another thread.
C13_SnapshotConsistent ==
    \A t \in CacheThreads :
        Returning(t, "snapshot") =>
            /\ run[t].ret.bids = levels(committed, "bids", run[t].arg.depth)
            /\ run[t].ret.asks = levels(committed, "asks", run[t].arg.depth)

\* snapshot() is returning both sides of the book the snapshot message left,
\* while the receive loop waits for the lock with the next message
C13_Witness ==
    /\ Returning("reader", "snapshot")
    /\ run["reader"].arg.depth = None
    /\ Len(run["reader"].ret.bids) = 2
    /\ Len(run["reader"].ret.asks) = 1
    /\ run["loop"].at = "acquire"
    /\ run["loop"].arg.msg = MsgDelta

\* what a read method returns for an engine
Observed(op, arg, e) ==
    CASE op = "out_of_sync" -> e.out_of_sync
      [] op = "levels" -> levels(e, arg.side, arg.depth)
      [] op = "best_bid" -> best_bid(e)
      [] op = "best_ask" -> best_ask(e)
      [] op = "mid_price" -> mid_price(e)
      [] op = "snapshot" -> [bids |-> levels(e, "bids", arg.depth),
                             asks |-> levels(e, "asks", arg.depth)]

\* C14: every public method of ThreadSafeOrderBookCache holds the lock for its
\* whole duration, at most one thread is inside the engine at any time, and
\* what a reader reads is never a partly applied message: while a thread reads,
\* no other thread is in the middle of process_message or reset(), the engine
\* is as the last whole operation left it, and the value returned is the
\* method's value for that engine.
C14_LockedThroughout ==
    /\ \A t \in CacheThreads : InEngine(t) => lock.owner = t /\ lock.count = 1
    /\ Cardinality({t \in CacheThreads : InEngine(t)}) <= 1
    /\ \A t \in CacheThreads :
          (InEngine(t) /\ run[t].op \notin Mutating) =>
              /\ \A u \in CacheThreads \ {t} : ~MidOperation(u)
              /\ Engine = committed
              /\ run[t].at = "exit" => run[t].ret = Observed(run[t].op, run[t].arg, committed)

\* the receive loop has applied the bids of the delta and not yet its asks,
\* and the reader, who called levels(), is waiting for the lock
C14_Witness ==
    /\ At("loop", "process_message", "asks")
    /\ run["loop"].arg.msg = MsgDelta
    /\ bids # committed.bids
    /\ asks = committed.asks
    /\ run["reader"].at = "acquire"
    /\ run["reader"].op = "levels"

\* C16: with process_message as the handler, the k-th call of the handler
\* carries the k-th frame the transport delivered, nothing reordered, merged
\* or skipped, also while a reader is inside the engine; and process_message
\* runs on the message of the latest call.
C16_DeliveryOrder ==
    /\ Len(handled) <= Len(delivered)
    /\ \A k \in 1..Len(handled) : handled[k].frame = delivered[k]
    /\ Len(handled) = IF run["loop"].at = "on_message" THEN Len(delivered) - 1
                      ELSE Len(delivered)
    /\ run["loop"].at \in {"acquire", "body", "exit", "done"} =>
          /\ run["loop"].op = "process_message"
          /\ run["loop"].arg.msg = handled[Len(handled)].data

\* three different frames have been handed over in the order of delivery, the
\* third waiting for the lock that the reader holds
C16_Witness ==
    /\ delivered = <<TextGarbage, TextSnapshot, TextDelta>>
    /\ Len(handled) = 3
    /\ run["loop"].at = "acquire"
    /\ InEngine("reader")

\* C17: every frame causes exactly one call of the handler, made before the
\* next frame is taken: with the decoded message when the frame decodes, with
\* {'raw': text} when it does not; nothing is raised, nothing goes to the
\* on-error callback, no frame is dropped.
C17_OneCallPerFrame ==
    /\ reported = <<>>
    /\ Len(handled) = IF run["loop"].at = "on_message" THEN Len(delivered) - 1
                      ELSE Len(delivered)
    /\ \A k \in 1..Len(handled) :
          /\ handled[k].frame = delivered[k]
          /\ handled[k].data =
                IF delivered[k] \in JsonTexts THEN json_loads(delivered[k]).v
                ELSE PyDict([topic |-> None, data |-> None, raw |-> Tok(delivered[k])])

\* a frame that does not decode has been handed over as {'raw': text} and the
\* snapshot frame after it as its decoded message
C17_Witness ==
    /\ Len(handled) = 2
    /\ delivered = <<TextGarbage, TextSnapshot>>
    /\ handled[1].data.v.raw = Tok(TextGarbage)
    /\ handled[2].data = MsgSnapshot
    /\ run["loop"] = Resting


----------------------------------------------------------------------------
(* BTSEWebSocketBase: start(), close(), the calls that send, and the       *)
(* callbacks the transport runs in the background thread.  A call that     *)
(* sends runs in its steps (the test of _ws, the wait on _connected, the   *)
(* write through _ws), close() in its own, and the threads interleave.     *)
(* The transport is websocket.WebSocketApp: run_forever connects, calls    *)
(* on_open, and calls on_close when the connection is over; send raises    *)
(* on a connection that is not open.                                       *)

\* the errors a call ends with
NotStartedError == "RuntimeError: WebSocket is not started; call start() first"
TimeoutError == "TimeoutError"
ConfigurationError == "ValueError"
AttributeError == "AttributeError: 'NoneType' object has no attribute 'send'"
ConnectionClosedError == "WebSocketConnectionClosedException"

\* constructor arguments: all credentials with auto_auth and the default
\* auth_op, all credentials without auto_auth and with the auth_op of Spot
\* v3.3, and one credential missing (None) or empty
Configured(key, secret, path, auto) ==
    [api_key |-> key, api_secret |-> secret, ws_path |-> path, auto_auth |-> auto,
     auth_op |-> Tok("login")]
Configs ==
    { Configured(Tok("key"), Tok("secret"), Tok("/ws/spot"), TRUE),
      [Configured(Tok("key"), Tok("secret"), Tok("/ws/spot"), FALSE)
          EXCEPT !.auth_op = Tok("authKeyExpires")],
      Configured(None, Tok("secret"), Tok("/ws/spot"), TRUE),
      Configured(Tok("key"), PyStr(<<>>), Tok("/ws/spot"), FALSE),
      Configured(Tok("key"), Tok("secret"), None, FALSE) }

\* (mutant) the key is not looked at
CredentialsSet_NoKey(cfg) == Truthy(cfg.api_secret) /\ Truthy(cfg.ws_path)

\* self.api_key and self.api_secret and self.ws_path
CredentialsSet(cfg) ==
    Truthy(cfg.api_key) /\ Truthy(cfg.api_secret) /\ Truthy(cfg.ws_path)

\* (mutant) a missing handle is not noticed
NotStarted_Unnoticed(h) == FALSE

\* not self._ws
NotStarted(h) == h = 0

\* _nonce(): the clock in milliseconds, as text
Nonces == {Tok("1700000000001")}

\* (mutant) the signature is computed over a nonce drawn anew, a millisecond
\* after the one that is sent
ws_signature_FreshNonce(cfg, nonce) ==
    PyStr(<<"hmac-sha384(">> \o cfg.api_secret.v \o <<",">> \o cfg.ws_path.v
          \o <<"1700000000002">> \o <<")">>)

\* _ws_signature(nonce): HMAC-SHA384(secret, ws_path + nonce), hex
ws_signature(cfg, nonce) ==
    PyStr(<<"hmac-sha384(">> \o cfg.api_secret.v \o <<",">> \o cfg.ws_path.v \o nonce.v \o <<")">>)

\* the payloads, and the frame texts written: json.dumps(payload) and "ping"
Payload(op, args) == [op |-> op, args |-> args]
AuthPayload(cfg, nonce) ==
    Payload(cfg.auth_op, <<cfg.api_key, nonce, ws_signature(cfg, nonce)>>)
SubscribePayload == Payload(Tok("subscribe"), <<TopicUpdate>>)
UnsubscribePayload == Payload(Tok("unsubscribe"), <<TopicUpdate>>)
CustomPayload == Payload(Tok("custom"), <<>>)
json_dumps(payload) == [json |-> payload]
PingText == [text |-> "ping"]

\* a call on the Session: where it is, the text it is going to write, whether
\* the wait saw the open signal set, the frames it wrote, how it ended
Calling(op, at, text) ==
    [op |-> op, at |-> at, text |-> text, saw |-> FALSE, wrote |-> <<>>, raised |-> ""]
Failed(c, error) == [c EXCEPT !.at = "done", !.raised = error]
Done(c) == [c EXCEPT !.at = "done"]

\* the calls that send
Senders == {"send_json", "ping", "subscribe", "unsubscribe", "authenticate"}

\* what send_json(payload), ping(), subscribe(topics) and unsubscribe(topics)
\* are going to write
TextOf(op) ==
    CASE op = "send_json" -> json_dumps(CustomPayload)
      [] op = "ping" -> PingText
      [] op = "subscribe" -> json_dumps(SubscribePayload)
      [] op = "unsubscribe" -> json_dumps(UnsubscribePayload)

\* the calls of each thread: one caller uses the Session, the other closes
\* it under its feet; one owner starts and closes the Session and pings, the
\* other closes it as well
CallsOf(t) ==
    CASE t = "caller1" -> Senders \cup {"start"}
      [] t = "caller2" -> {"close"}
      [] t = "owner1" -> {"start", "close", "ping"}
      [] t = "owner2" -> {"close"}
      [] OTHER -> {}

\* how often the thread may call start(): a caller starts the Session once
StartsBy(t) == IF t \in Owners THEN MaxStarts ELSE 1

\* the transport handles: the n-th start() creates handle n
Handles == 1..MaxStarts

\* a WebSocketApp with its connection ("connecting", "open", "closed"), its
\* run_forever thread and the frames written through it; who ended the
\* connection (the peer or the network, or close()), and what _on_open and
\* _on_close of this handle have done so far, in order
NewConn == [state |-> "connecting", loop |-> "connecting", written |-> <<>>,
            by |-> "", events |-> <<>>]

RECURSIVE TotalWritten(_)
TotalWritten(c) == IF c = <<>> THEN 0 ELSE Len(Head(c).written) + TotalWritten(Tail(c))

SessionFrame == <<engineVars, last, chain, log, cacheVars>>

\* the thread is in no call: it has made none yet, or the last one has
\* returned or raised
Free(t) == call[t].at \in {"idle", "done"}

\* the thread may begin a call that sends
MaySend(t, op) == Free(t) /\ op \in CallsOf(t) /\ TotalWritten(conn) < MaxWrites

\* start(): a new WebSocketApp in _ws, its run_forever thread in _thread,
\* started
Start(t) ==
    /\ Free(t)
    /\ "start" \in CallsOf(t)
    /\ Len(conn) < StartsBy(t)
    /\ conn' = Append(conn, NewConn)
    /\ ws' = Len(conn) + 1
    /\ thread' = Len(conn) + 1
    /\ call' = [call EXCEPT ![t] = Done(Calling("start", "start", None))]
    /\ UNCHANGED <<connected, config, SessionFrame>>

\* close(), line 186: if self._ws
Close(t) ==
    /\ Free(t)
    /\ "close" \in CallsOf(t)
    /\ call' = [call EXCEPT ![t] =
                  Calling("close", IF ws # 0 THEN "ws_close" ELSE "clear", None)]
    /\ UNCHANGED <<ws, thread, connected, config, conn, SessionFrame>>

\* close(), line 187: self._ws.close() on the handle _ws holds now
CloseTransport(t) ==
    /\ call[t].at = "ws_close"
    /\ IF ws = 0
       THEN /\ call' = [call EXCEPT ![t] = Failed(call[t], AttributeError)]
            /\ conn' = conn
       ELSE /\ call' = [call EXCEPT ![t].at = "clear"]
            /\ conn' = [conn EXCEPT ![ws].state = "closed",
                                    ![ws].by = IF @ = "" THEN "close" ELSE @]
    /\ UNCHANGED <<ws, thread, connected, config, SessionFrame>>

\* close(), lines 188-189: self._ws = None; self._thread = None
CloseClear(t) ==
    /\ call[t].at = "clear"
    /\ ws' = 0
    /\ thread' = 0
    /\ call' = [call EXCEPT ![t] = Done(call[t])]
    /\ UNCHANGED <<connected, config, conn, SessionFrame>>

\* authenticate(), lines 130-136: the test of the credentials, then the
\* nonce, the signature and the payload; send_json(payload) follows
authenticate(cfg, nonce) ==
    IF ~CredentialsSet(cfg)
    THEN Failed(Calling("authenticate", "auth", None), ConfigurationError)
    ELSE Calling("authenticate", "check", json_dumps(AuthPayload(cfg, nonce)))

Authenticate(t) ==
    /\ MaySend(t, "authenticate")
    /\ \E nonce \in Nonces : call' = [call EXCEPT ![t] = authenticate(config, nonce)]
    /\ UNCHANGED <<ws, thread, connected, config, conn, SessionFrame>>

\* send_json and ping, first test: if not self._ws: raise RuntimeError
CheckStarted(c) ==
    IF NotStarted(ws) THEN Failed(c, NotStartedError) ELSE [c EXCEPT !.at = "wait"]

\* send_json(payload), ping(), subscribe(topics), unsubscribe(topics) are
\* called
Call(t) ==
    /\ \E op \in Senders \ {"authenticate"} :
          /\ MaySend(t, op)
          /\ call' = [call EXCEPT ![t] = CheckStarted(Calling(op, "check", TextOf(op)))]
    /\ UNCHANGED <<ws, thread, connected, config, conn, SessionFrame>>

\* authenticate() calls send_json(payload)
AuthenticateSends(t) ==
    /\ call[t].at = "check"
    /\ call' = [call EXCEPT ![t] = CheckStarted(call[t])]
    /\ UNCHANGED <<ws, thread, connected, config, conn, SessionFrame>>

\* self._connected.wait(timeout) returns True: the signal is set
WaitOpen(t) ==
    /\ call[t].at = "wait"
    /\ connected
    /\ call' = [call EXCEPT ![t].at = "send", ![t].saw = TRUE]
    /\ UNCHANGED <<ws, thread, connected, config, conn, SessionFrame>>

\* self._connected.wait(timeout) returns False: the timeout has elapsed with
\* the signal clear
WaitTimeout(t) ==
    /\ call[t].at = "wait"
    /\ ~connected
    /\ call' = [call EXCEPT ![t] = Failed(call[t], TimeoutError)]
    /\ UNCHANGED <<ws, thread, connected, config, conn, SessionFrame>>

\* self._ws.send(text) on the handle _ws holds now: None has no send, and
\* WebSocketApp.send raises on a connection that is not open
Send(t) ==
    /\ call[t].at = "send"
    /\ IF ws = 0
       THEN /\ call' = [call EXCEPT ![t] = Failed(call[t], AttributeError)]
            /\ conn' = conn
       ELSE IF conn[ws].state # "open"
       THEN /\ call' = [call EXCEPT ![t] = Failed(call[t], ConnectionClosedError)]
            /\ conn' = conn
       ELSE /\ call' = [call EXCEPT ![t] = [Done(call[t]) EXCEPT !.wrote = Append(@, call[t].text)]]
            /\ conn' = [conn EXCEPT ![ws].written = Append(@, call[t].text)]
    /\ UNCHANGED <<ws, thread, connected, config, SessionFrame>>

\* run_forever: the connection is established and on_open is about to run
TransportOpens(h) ==
    /\ h \in DOMAIN conn
    /\ conn[h].loop = "connecting"
    /\ conn[h].state = "connecting"
    /\ conn' = [conn EXCEPT ![h].state = "open", ![h].loop = "on_open"]
    /\ UNCHANGED <<ws, thread, connected, config, call, SessionFrame>>

\* run_forever: the connection could not be established, or close() came
\* first; on_close is about to run
TransportFails(h) ==
    /\ h \in DOMAIN conn
    /\ conn[h].loop = "connecting"
    /\ conn' = [conn EXCEPT ![h].state = "closed", ![h].loop = "on_close",
                            ![h].by = IF @ = "" THEN "peer" ELSE @]
    /\ UNCHANGED <<ws, thread, connected, config, call, SessionFrame>>

\* (mutant) auto_auth alone decides
AutoAuthenticates_AutoOnly(cfg) == cfg.auto_auth

\* _on_open, line 92: auto_auth and all three credentials
AutoAuthenticates(cfg) == cfg.auto_auth /\ CredentialsSet(cfg)

\* _on_open, lines 90-92: the signal is set; with auto_auth and credentials
\* authenticate() is called
OnOpen(h) ==
    /\ h \in DOMAIN conn
    /\ conn[h].loop = "on_open"
    /\ connected' = TRUE
    /\ IF AutoAuthenticates(config)
       THEN /\ conn' = [conn EXCEPT ![h].loop = "on_open_auth",
                                    ![h].events = @ \o <<"set", "authenticate">>]
            /\ \E nonce \in Nonces :
                  call' = [call EXCEPT ![LoopThread(h)] = authenticate(config, nonce)]
       ELSE /\ conn' = [conn EXCEPT ![h].loop = "on_open_user",
                                    ![h].events = Append(@, "set")]
            /\ call' = call
    /\ UNCHANGED <<ws, thread, config, SessionFrame>>

\* _on_open, lines 93-97: authenticate() has returned or raised; what it
\* raised goes to the on-error callback
OnOpenAuthenticated(h) ==
    /\ h \in DOMAIN conn
    /\ conn[h].loop = "on_open_auth"
    /\ call[LoopThread(h)].at = "done"
    /\ reported' = IF call[LoopThread(h)].raised # ""
                   THEN Append(reported, call[LoopThread(h)].raised) ELSE reported
    /\ call' = [call EXCEPT ![LoopThread(h)] = Uncalled]
    /\ conn' = [conn EXCEPT ![h].loop = "on_open_user",
                            ![h].events = Append(@, IF call[LoopThread(h)].wrote # <<>>
                                                    THEN "auth_sent" ELSE "auth_failed")]
    /\ UNCHANGED <<ws, thread, connected, config, engineVars, last, chain, log,
                   lock, run, delivered, handled, committed>>

\* _on_open, lines 98-99: the on-open callback of the caller; the loop then
\* receives
OnOpenUser(h) ==
    /\ h \in DOMAIN conn
    /\ conn[h].loop = "on_open_user"
    /\ conn' = [conn EXCEPT ![h].loop = "receiving",
                            ![h].events = Append(@, "on_open_user")]
    /\ UNCHANGED <<ws, thread, connected, config, call, SessionFrame>>

\* _on_open, lines 98-99, with an on-open callback that subscribes: the
\* callback calls subscribe(topics) on the receive loop
OnOpenSubscribes(h) ==
    /\ h \in DOMAIN conn
    /\ conn[h].loop = "on_open_user"
    /\ conn' = [conn EXCEPT ![h].loop = "on_open_call",
                            ![h].events = Append(@, "on_open_user")]
    /\ call' = [call EXCEPT ![LoopThread(h)] =
                  CheckStarted(Calling("subscribe", "check", TextOf("subscribe")))]
    /\ UNCHANGED <<ws, thread, connected, config, SessionFrame>>

\* the callback has returned or raised; what it raised goes to the on-error
\* callback, and the loop then receives
OnOpenReturns(h) ==
    /\ h \in DOMAIN conn
    /\ conn[h].loop = "on_open_call"
    /\ call[LoopThread(h)].at = "done"
    /\ reported' = IF call[LoopThread(h)].raised # ""
                   THEN Append(reported, call[LoopThread(h)].raised) ELSE reported
    /\ call' = [call EXCEPT ![LoopThread(h)] = Uncalled]
    /\ conn' = [conn EXCEPT ![h].loop = "receiving",
                            ![h].events = Append(@, IF call[LoopThread(h)].wrote # <<>>
                                                    THEN "callback_sent" ELSE "callback_failed")]
    /\ UNCHANGED <<ws, thread, connected, config, engineVars, last, chain, log,
                   lock, run, delivered, handled, committed>>

\* the peer closes the connection
TransportLost(h) ==
    /\ h \in DOMAIN conn
    /\ conn[h].state = "open"
    /\ conn' = [conn EXCEPT ![h].state = "closed", ![h].by = "peer"]
    /\ UNCHANGED <<ws, thread, connected, config, call, SessionFrame>>

\* run_forever finds the connection closed, by the peer or by close(), and
\* on_close is about to run
TransportCloses(h) ==
    /\ h \in DOMAIN conn
    /\ conn[h].loop = "receiving"
    /\ conn[h].state = "closed"
    /\ conn' = [conn EXCEPT ![h].loop = "on_close"]
    /\ UNCHANGED <<ws, thread, connected, config, call, SessionFrame>>

\* _on_close: the signal is cleared, the on-close callback runs, and
\* run_forever returns
OnClose(h) ==
    /\ h \in DOMAIN conn
    /\ conn[h].loop = "on_close"
    /\ connected' = FALSE
    /\ conn' = [conn EXCEPT ![h].loop = "ended",
                            ![h].events = @ \o <<"clear", "on_close_user">>]
    /\ UNCHANGED <<ws, thread, config, call, SessionFrame>>

InitAnySession == InitEngine /\ InitCache /\ \E cfg \in Configs : InitSession(cfg)

NextSession ==
    \/ \E t \in Callers : Start(t)
    \/ \E t \in Callers : Close(t)
    \/ \E t \in Callers : CloseTransport(t)
    \/ \E t \in Callers : CloseClear(t)
    \/ \E t \in Callers : Authenticate(t)
    \/ \E t \in Callers : Call(t)
    \/ \E t \in SessionThreads : AuthenticateSends(t)
    \/ \E t \in SessionThreads : WaitOpen(t)
    \/ \E t \in SessionThreads : WaitTimeout(t)
    \/ \E t \in SessionThreads : Send(t)
    \/ \E h \in Handles : TransportOpens(h)
    \/ \E h \in Handles : TransportFails(h)
    \/ \E h \in Handles : OnOpen(h)
    \/ \E h \in Handles : OnOpenAuthenticated(h)
    \/ \E h \in Handles : OnOpenUser(h)
    \/ \E h \in Handles : TransportLost(h)
    \/ \E h \in Handles : TransportCloses(h)
    \/ \E h \in Handles : OnClose(h)

SpecSession == InitAnySession /\ [][NextSession]_vars

\* a Session whose on-open callback subscribes, started and started again
\* by one thread while its transports open, fail and close by themselves:
\* only the receive loops send
NextOpen ==
    \/ \E t \in {"owner1"} : Start(t)
    \/ \E t \in SessionThreads : AuthenticateSends(t)
    \/ \E t \in SessionThreads : WaitOpen(t)
    \/ \E t \in SessionThreads : WaitTimeout(t)
    \/ \E t \in SessionThreads : Send(t)
    \/ \E h \in Handles : TransportOpens(h)
    \/ \E h \in Handles : TransportFails(h)
    \/ \E h \in Handles : OnOpen(h)
    \/ \E h \in Handles : OnOpenAuthenticated(h)
    \/ \E h \in Handles : OnOpenSubscribes(h)
    \/ \E h \in Handles : OnOpenReturns(h)
    \/ \E h \in Handles : TransportLost(h)
    \/ \E h \in Handles : TransportCloses(h)
    \/ \E h \in Handles : OnClose(h)

SpecOpen == InitAnySession /\ [][NextOpen]_vars

\* a Session without credentials and with a silent on-open callback, which
\* two threads start, close and start again, and one of them pings
NextLifecycle ==
    \/ \E t \in Owners : Start(t)
    \/ \E t \in Owners : Close(t)
    \/ \E t \in Owners : CloseTransport(t)
    \/ \E t \in Owners : CloseClear(t)
    \/ \E t \in Owners : Call(t)
    \/ \E t \in Owners : WaitOpen(t)
    \/ \E t \in Owners : WaitTimeout(t)
    \/ \E t \in Owners : Send(t)
    \/ \E h \in Handles : TransportOpens(h)
    \/ \E h \in Handles : TransportFails(h)
    \/ \E h \in Handles : OnOpen(h)
    \/ \E h \in Handles : OnOpenUser(h)
    \/ \E h \in Handles : TransportLost(h)
    \/ \E h \in Handles : TransportCloses(h)
    \/ \E h \in Handles : OnClose(h)

SpecLifecycle == Init /\ [][NextLifecycle]_vars


\* a credential or the signing path is missing: absent or empty
Missing(x) == x \in {None, PyStr(<<>>)}
MissingCredential(cfg) ==
    Missing(cfg.api_key) \/ Missing(cfg.api_secret) \/ Missing(cfg.ws_path)

\* C18: on a Session on which start() has never been called, send_json, ping,
\* subscribe, unsubscribe and authenticate (with credentials set) fail with the
\* not-started error, without waiting for the open signal and without writing
\* anything to a transport.
C18_NotStarted ==
    conn = <<>> =>
        \A t \in Callers :
            call[t].op \in Senders =>
                /\ call[t].at \notin {"wait", "send"}
                /\ ~call[t].saw
                /\ call[t].wrote = <<>>
                /\ (call[t].at = "done" /\ ~MissingCredential(config)) =>
                      call[t].raised = NotStartedError
                /\ (call[t].at = "done" /\ call[t].op # "authenticate") =>
                      call[t].raised = NotStartedError

\* authenticate(), with every credential set, has failed with the not-started
\* error on a Session never started
C18_Witness ==
    /\ conn = <<>>
    /\ ~MissingCredential(config)
    /\ call["caller1"].op = "authenticate"
    /\ call["caller1"].at = "done"
    /\ call["caller1"].raised = NotStartedError

\* C19, as the claim states it: a send_json or ping call that found the
\* Session started writes only after it saw the open signal set; when it did
\* not see it, it ends in TimeoutError with no frame written; when it saw it,
\* it writes exactly one frame, its text.
C19_WaitThenWrite ==
    \A t \in Callers :
        (call[t].op \in {"send_json", "ping"} /\ call[t].at = "done"
            /\ call[t].raised # NotStartedError) =>
            IF call[t].saw
            THEN /\ call[t].raised = ""
                 /\ call[t].wrote = <<call[t].text>>
            ELSE /\ call[t].raised = TimeoutError
                 /\ call[t].wrote = <<>>

\* C20: whenever api_key, api_secret or ws_path is missing, a call of
\* authenticate(), in whatever state the Session is, ends at once in the
\* configuration error, writes no frame and leaves _ws, _thread, the open
\* signal, the configuration and every transport as they were.
C20_ConfigurationError ==
    [][\A t \in SessionThreads :
          (MissingCredential(config) /\ call'[t] # call[t] /\ call'[t].op = "authenticate") =>
              /\ call'[t].at = "done"
              /\ call'[t].raised = ConfigurationError
              /\ call'[t].wrote = <<>>
              /\ UNCHANGED <<ws, thread, connected, config, conn>>]_vars

\* authenticate() has failed with the configuration error on a Session that
\* is started and open
C20_Witness ==
    /\ MissingCredential(config)
    /\ call["caller1"].op = "authenticate"
    /\ call["caller1"].raised = ConfigurationError
    /\ ws # 0
    /\ connected
    /\ conn[ws].state = "open"

----------------------------------------------------------------------------
(* Messages without seqNum, snapshots with a gap, and unknown types.       *)

\* process_message went through to _update_seq on a message of the given kind
AppliedSnapshot ==
    Processed /\ IsForSymbol(last.msg, symbol) /\ IsSnapshotMsg(last.msg)
AppliedDelta ==
    Processed /\ IsForSymbol(last.msg, symbol) /\ IsDeltaMsg(last.msg)

\* the message declares a predecessor other than the sequence number the
\* engine held when it arrived
DeclaresGap ==
    /\ last.pre.seq_num # None
    /\ SeqNumOf(last.msg) # None
    /\ PrevSeqNumOf(last.msg) # None
    /\ PrevSeqNumOf(last.msg) # last.pre.seq_num

(* C28, as claimed: a relevant message without seqNum, snapshot or delta,  *)
(* leaves seq_num and prev_seq_num as they were and does not set           *)
(* out_of_sync.                                                            *)
C28_SeqUntouchedAsClaimed ==
    ((AppliedSnapshot \/ AppliedDelta) /\ SeqNumOf(last.msg) = None) =>
        /\ seq_num = last.pre.seq_num
        /\ prev_seq_num = last.pre.prev_seq_num
        /\ (out_of_sync => last.pre.out_of_sync)

(* C28, amended: a relevant message without seqNum is never gap-checked    *)
(* and records no sequence field of its own, its prevSeqNum included.  A   *)
(* delta leaves seq_num, prev_seq_num and out_of_sync as they were; a      *)
(* snapshot or snapshotL1 leaves seq_num and prev_seq_num unset and        *)
(* out_of_sync false, because it calls reset() before its levels are       *)
(* applied.                                                                *)
C28_SeqUntouched ==
    /\ (AppliedDelta /\ SeqNumOf(last.msg) = None) =>
          /\ seq_num = last.pre.seq_num
          /\ prev_seq_num = last.pre.prev_seq_num
          /\ out_of_sync = last.pre.out_of_sync
    /\ (AppliedSnapshot /\ SeqNumOf(last.msg) = None) =>
          /\ seq_num = None
          /\ prev_seq_num = None
          /\ ~out_of_sync

\* a snapshot without seqNum, but with a prevSeqNum, was applied to an engine
\* that held sequence numbers, and the engine holds none now
C28_Witness ==
    /\ AppliedSnapshot
    /\ SeqNumOf(last.msg) = None /\ PrevSeqNumOf(last.msg) # None
    /\ last.pre.seq_num # None /\ last.pre.prev_seq_num # None
    /\ PrevSeqNumOf(last.msg) # last.pre.seq_num
    /\ seq_num = None

(* C29, as claimed: a snapshot that carries seqNum and a prevSeqNum other  *)
(* than the sequence number the engine held when it arrived leaves         *)
(* out_of_sync true, as a delta with the same fields would.                *)
C29_SnapshotGapAsClaimed == (AppliedSnapshot /\ DeclaresGap) => out_of_sync

(* C29, amended: _update_seq runs after the levels are applied for both    *)
(* kinds, so an applied message that carries seqNum has its seqNum and     *)
(* prevSeqNum recorded; but a snapshot has called reset() first, the       *)
(* engine then holds no sequence number, and out_of_sync is false after    *)
(* every applied snapshot, whatever prevSeqNum it declares.  Only a delta  *)
(* with these fields leaves out_of_sync true.                              *)
C29_SnapshotRebases ==
    /\ ((AppliedSnapshot \/ AppliedDelta) /\ SeqNumOf(last.msg) # None) =>
          /\ seq_num = SeqNumOf(last.msg)
          /\ prev_seq_num = PrevSeqNumOf(last.msg)
    /\ AppliedSnapshot => ~out_of_sync
    /\ (AppliedDelta /\ DeclaresGap) => out_of_sync

\* a snapshot that declares a gap was applied to an engine that held a
\* sequence number, and out_of_sync is false
C29_Witness ==
    /\ AppliedSnapshot /\ DeclaresGap
    /\ last.pre.bids # EmptyBook
    /\ seq_num = SeqNumOf(last.msg)
    /\ ~out_of_sync

\* the type field of the message is present and names no kind the engine knows
IsUnknownType(msg) ==
    DataOf(msg).type \notin {None, Tok("snapshot"), Tok("snapshotL1"), Tok("delta")}

(* C30: a relevant message for this symbol whose data.type is present but  *)
(* is none of snapshot, snapshotL1 and delta leaves the whole engine as it *)
(* was, the sequence fields included; a message without a type field is    *)
(* applied as a delta: onto the existing sides, with the gap check and the *)
(* sequence fields of a delta.                                             *)
C30_UnknownTypeIgnored ==
    /\ (/\ last.op = "process_message" /\ IsForSymbol(last.msg, symbol)
        /\ IsUnknownType(last.msg)) =>
          ~last.raised /\ Engine = last.pre
    /\ (/\ last.op = "process_message" /\ IsForSymbol(last.msg, symbol)
        /\ DataOf(last.msg).type = None
        /\ IsWellFormed(LevelsOf(last.msg, "bids"))
        /\ IsWellFormed(LevelsOf(last.msg, "asks"))) =>
          /\ ~last.raised
          /\ IsApplied(last.pre.bids, LevelsOf(last.msg, "bids"), bids)
          /\ IsApplied(last.pre.asks, LevelsOf(last.msg, "asks"), asks)
          /\ out_of_sync = (last.pre.out_of_sync \/ DeclaresGap)
          /\ IF SeqNumOf(last.msg) = None
             THEN seq_num = last.pre.seq_num /\ prev_seq_num = last.pre.prev_seq_num
             ELSE seq_num = SeqNumOf(last.msg) /\ prev_seq_num = PrevSeqNumOf(last.msg)

\* a message of type trade with levels and a new seqNum has left a sequenced
\* engine with other levels as it was
C30_Witness ==
    /\ last.op = "process_message" /\ IsForSymbol(last.msg, symbol)
    /\ DataOf(last.msg).type = Tok("trade")
    /\ SeqNumOf(last.msg) # None /\ SeqNumOf(last.msg) # last.pre.seq_num
    /\ last.pre.seq_num # None
    /\ LevelsOf(last.msg, "bids") # <<>>
    /\ \E price \in PricesIn(LevelsOf(last.msg, "bids")) : price \notin DOMAIN last.pre.bids
    /\ Engine = last.pre

----------------------------------------------------------------------------
(* Messages of other shapes than section 6 of the specification describes. *)

\* level lists with an entry that is no pair, or whose price or size is not
\* numeric, alone or after a well-formed entry; and two well-formed lists
ShapedLists ==
    { <<>>,
      << <<"1", "1">> >>,
      << <<"2", "2">> >>,
      << <<"1">> >>,
      << <<"1", "2", "1">> >>,
      << <<"1", "x">> >>,
      << <<"x", "1">> >>,
      << <<"2", "1">>, <<"1">> >>,
      << <<"1", "0">>, <<"2", "x">> >> }

\* decoded frames that are no object (json.loads of "[]" and of "1"), frames
\* whose topic is a number or a list, and book messages over ShapedLists
ShapedFrames ==
    {PyList(<<>>), PyInt(1)}
    \cup {Frame(topic, Data(Tok(OwnSymbol), Tok("delta"), Levels(<< <<"1", "1">> >>), None,
                            PyInt(1), None)) :
             topic \in {PyInt(1), PyList(<<"update:">>), PyList(<<>>)}}
    \cup {Frame(TopicUpdate, Data(Tok(OwnSymbol), type, Levels(b), Levels(a), seq, None)) :
             type \in {Tok("snapshot"), Tok("delta")},
             b \in ShapedLists, a \in ShapedLists, seq \in {None, PyInt(1)}}

\* the engine fed with messages of every shape
NextShapes == ProcessMessage(ShapedFrames) \/ Reset \/ Return

SpecShapes == Init /\ [][NextShapes]_vars

(* C26: process_message never raises, whatever the shape of the message:   *)
(* a topic that is no string, level entries that are no two-element pairs, *)
(* prices or sizes that are not numeric and decoded frames that are no     *)
(* objects are silently ignored.                                           *)
C26_NeverRaises == (last.op = "process_message") => ~last.raised

----------------------------------------------------------------------------
(* BTSEClientBase (src/btse_sdk/core.py): the signing of a REST request.   *)
(* A str is its sequence of tokens, bytes are the encoded tokens, and a    *)
(* request body is the sequence of its (key, value) items, in the order    *)
(* of the dict, with single tokens as keys and values.                     *)

PyBytes(b) == [t |-> "bytes", v |-> b]

\* str.encode("utf-8"): the text of json.dumps and of the paths is ASCII, one
\* byte for each character
encode(str) == PyBytes([i \in DOMAIN str.v |-> [byte |-> str.v[i]]])

\* what the peer reads back from the bytes it receives
decode(bytes) == PyStr([i \in DOMAIN bytes.v |-> bytes.v[i].byte])

\* json.dumps(body, separators=(item, key)): "{", then each item as its
\* quoted key, the key separator and the value, items joined by the item
\* separator, then "}"
RECURSIVE DumpItems(_, _, _)
DumpItems(items, item_separator, key_separator) ==
    IF items = <<>> THEN <<>>
    ELSE <<"\"", Head(items)[1], "\"", key_separator, Head(items)[2]>>
         \o (IF Len(items) > 1 THEN <<item_separator>> ELSE <<>>)
         \o DumpItems(Tail(items), item_separator, key_separator)

dumps(body, item_separator, key_separator) ==
    PyStr(<<"{">> \o DumpItems(body.v, item_separator, key_separator) \o <<"}">>)

\* hmac.new(secret_bytes, msg, hashlib.sha384).hexdigest(): a digest is equal
\* to another only when key and message are
HexDigest(secret_bytes, msg) == [t |-> "digest", key |-> secret_bytes, msg |-> msg]

\* _sign(path, body_str, nonce)
sign(client, path, body_str, nonce) ==
    IF ~Truthy(client.api_secret) THEN [raised |-> TRUE, ret |-> None]
    ELSE [raised |-> FALSE,
          ret |-> HexDigest(encode(client.api_secret),
                            encode(PyStr(path.v \o nonce.v \o body_str.v)))]

\* the headers of a request; a header that is not set holds None
Headers(content_type, api, nonce, signature) ==
    [content_type |-> content_type, request_api |-> api, request_nonce |-> nonce,
     request_sign |-> signature]
NoHeaders == Headers(None, None, None, None)

\* _auth_headers(path, body, query_params, method), with the value _nonce()
\* reads off the clock: the headers and the body string, or ValueError
auth_headers(client, path, body, nonce) ==
    IF ~Truthy(client.api_key) \/ ~Truthy(client.api_secret)
    THEN [raised |-> TRUE, headers |-> NoHeaders, body_str |-> PyStr(<<>>)]
    ELSE LET body_str == IF body.t # "none" THEN dumps(body, ",", ":") ELSE PyStr(<<>>)
             signature == sign(client, path, body_str, nonce)
         IN  [raised |-> signature.raised,
              headers |-> Headers(Tok("application/json"), client.api_key, nonce,
                                  signature.ret),
              body_str |-> body_str]

\* method.upper()
upper(method) ==
    CASE method \in {"get", "GET"} -> "GET"
      [] method \in {"post", "POST"} -> "POST"
      [] method \in {"delete", "DELETE"} -> "DELETE"

\* no call of session.request
NotSent == [t |-> "none"]

\* session.request(method, url, params, json, data, headers, timeout)
Sent(method, url, params, json, data, headers) ==
    [t |-> "request", method |-> method, url |-> url, params |-> params,
     json |-> json, data |-> data, headers |-> headers]

\* (mutant) an authenticated request hands the dict to the executor, which
\* serializes it itself
request_PassesJson(client, method, endpoint, params, data, auth, nonce) ==
    LET path == PyStr(client.api_prefix.v \o endpoint.v)
        url == PyStr(client.base_url.v \o path.v)
        signed == auth_headers(client, path, data, nonce)
    IN  IF auth /\ signed.raised THEN [raised |-> TRUE, sent |-> NotSent]
        ELSE [raised |-> FALSE,
              sent |-> Sent(upper(method), url, params, data, None,
                            IF auth THEN signed.headers
                            ELSE IF data.t # "none"
                                 THEN Headers(Tok("application/json"), None, None, None)
                                 ELSE NoHeaders)]

\* _request(method, endpoint, params, data, auth) up to the call of the
\* executor (lines 120-159): what session.request is called with, or the
\* ValueError of _auth_headers
request(client, method, endpoint, params, data, auth, nonce) ==
    LET path == PyStr(client.api_prefix.v \o endpoint.v)
        url == PyStr(client.base_url.v \o path.v)
        signed == auth_headers(client, path, data, nonce)
        body_bytes == IF auth /\ Truthy(signed.body_str) THEN encode(signed.body_str)
                      ELSE None
        json_body == IF ~auth /\ data.t # "none" THEN data ELSE None
    IN  IF auth /\ signed.raised THEN [raised |-> TRUE, sent |-> NotSent]
        ELSE [raised |-> FALSE,
              sent |-> Sent(upper(method), url, params, json_body, body_bytes,
                            IF auth THEN signed.headers
                            ELSE IF data.t # "none"
                                 THEN Headers(Tok("application/json"), None, None, None)
                                 ELSE NoHeaders)]

\* the body the executor (requests) puts on the wire: data as it is, else the
\* json argument in json.dumps' default form, else nothing
WireBody(sent) ==
    IF sent.data.t # "none" THEN sent.data
    ELSE IF sent.json.t # "none" THEN encode(dumps(sent.json, ", ", ": "))
    ELSE PyBytes(<<>>)

\* the clients, requests and clock readings of the model
ApiPrefix == Tok("/api/v3.3")
BaseUrl == Tok("https://api.btse.com/spot")
Client(key, secret) ==
    [api_key |-> key, api_secret |-> secret, base_url |-> BaseUrl, api_prefix |-> ApiPrefix]
Clients ==
    {Client(key, secret) : key \in {None, Tok("key")},
                           secret \in {None, PyStr(<<>>), Tok("secret")}}
Methods == {"GET", "post", "DELETE"}
Endpoints == {Tok("/order"), Tok("/user/open_orders")}
Bodies ==
    {None, PyList(<<>>), PyList(<< <<"symbol", "\"BTC-USD\"">> >>),
     PyList(<< <<"symbol", "\"BTC-USD\"">>, <<"size", "1">> >>)}
Params == {None, PyList(<< <<"symbol", "BTC-USD">> >>)}
ClockReadings == {Tok("1700000000001"), Tok("1700000000002")}

\* a caller makes a REST request; the clock is read when _nonce() is called
Request ==
    /\ Idle
    /\ \E client \in Clients, method \in Methods, endpoint \in Endpoints,
          params \in Params, data \in Bodies, auth \in BOOLEAN, nonce \in ClockReadings :
          LET r == request(client, method, endpoint, params, data, auth, nonce) IN
          last' = [op |-> "request", client |-> client, method |-> method,
                   endpoint |-> endpoint, params |-> params, data |-> data,
                   auth |-> auth, raised |-> r.raised, sent |-> r.sent]
    /\ UNCHANGED <<engineVars, chain, log, cacheVars, sessionVars>>

NextRest == Request \/ Return

SpecRest == Init /\ [][NextRest]_vars

\* the signature the peer computes for a request it receives: over the path
\* of the request, the nonce header and the body bytes as received
ServerSignature(secret, path, sent) ==
    HexDigest(encode(secret),
              encode(PyStr(path.v \o sent.headers.request_nonce.v
                           \o decode(WireBody(sent)).v)))

(* C27: for every authenticated REST request, the body bytes handed to the *)
(* HTTP executor are exactly the body string that went into the signed     *)
(* message path + nonce + body (empty when there is no body), and the      *)
(* nonce of the request-nonce header is the nonce that was signed: the     *)
(* signature header is the signature of what is transmitted, and the       *)
(* executor is given nothing to serialize itself.                          *)
C27_SignedIsSent ==
    (last.op = "request" /\ last.auth /\ ~last.raised) =>
        LET path == PyStr(last.client.api_prefix.v \o last.endpoint.v) IN
        /\ last.sent.headers.request_sign =
               ServerSignature(last.client.api_secret, path, last.sent)
        /\ last.sent.json = None
        /\ (last.data = None) = (WireBody(last.sent) = PyBytes(<<>>))
        /\ last.sent.headers.request_api = last.client.api_key

\* an authenticated POST with a body of two items was handed to the executor
C27_Witness ==
    /\ last.op = "request" /\ last.auth /\ ~last.raised
    /\ last.sent.method = "POST"
    /\ last.data.t = "list" /\ Len(last.data.v) = 2
    /\ last.sent.data.t = "bytes"
    /\ Len(last.sent.data.v) > Len(last.data.v)

----------------------------------------------------------------------------
(* The authentication frame.                                               *)

\* sign(secret, message) of section 4.3, on texts
KeyedHash(secret, message) ==
    PyStr(<<"hmac-sha384(">> \o secret.v \o <<",">> \o message.v \o <<")">>)

\* the frame is {op: auth_op, args: [api_key, nonce, signature]} with the
\* signature computed over the nonce the frame carries
IsAuthFrame(frame, cfg) ==
    /\ frame.json.op = cfg.auth_op
    /\ Len(frame.json.args) = 3
    /\ frame.json.args[1] = cfg.api_key
    /\ frame.json.args[2] \in Nonces
    /\ frame.json.args[3] =
           KeyedHash(cfg.api_secret, PyStr(cfg.ws_path.v \o frame.json.args[2].v))

(* C22: an authenticate() call that succeeds has written exactly one       *)
(* frame, {op: auth_op, args: [api_key, nonce, signature]}, in which the   *)
(* signature is sign(api_secret, ws_path + nonce) over the very nonce that *)
(* is sent in args: no second nonce is drawn between signing and sending.  *)
C22_AuthFrame ==
    \A t \in SessionThreads :
        (call[t].op = "authenticate" /\ call[t].at = "done" /\ call[t].raised = "") =>
            /\ Len(call[t].wrote) = 1
            /\ IsAuthFrame(call[t].wrote[1], config)
            /\ \E h \in DOMAIN conn :
                  \E i \in DOMAIN conn[h].written : conn[h].written[i] = call[t].wrote[1]

\* a caller's authenticate() has succeeded on a Session whose auth_op is not
\* the default
C22_Witness ==
    /\ call["caller1"].op = "authenticate"
    /\ call["caller1"].at = "done"
    /\ call["caller1"].raised = ""
    /\ config.auth_op = Tok("authKeyExpires")
    /\ Len(call["caller1"].wrote) = 1
    /\ ws # 0 /\ conn[ws].written = call["caller1"].wrote

----------------------------------------------------------------------------
(* Automatic authentication on open.                                       *)

IsPrefix(s, t) == Len(s) <= Len(t) /\ \A i \in DOMAIN s : s[i] = t[i]

\* what _on_open of the handle has done so far, in order
OpenEvents(h) ==
    SelectSeq(conn[h].events, LAMBDA e : e \notin {"clear", "on_close_user"})

\* _on_open of the handle has got as far as the on-open callback
CallbackRan(h) == \E i \in DOMAIN conn[h].events : conn[h].events[i] = "on_open_user"

\* how often _on_open of the handle has called authenticate()
AuthenticateCalls(h) ==
    Cardinality({i \in DOMAIN conn[h].events : conn[h].events[i] = "authenticate"})

\* on every handle, a frame of the on-open callback comes after an
\* authentication frame
AuthFrameFirst ==
    \A h \in DOMAIN conn : \A i \in DOMAIN conn[h].written :
        conn[h].written[i] = TextOf("subscribe") =>
            \E j \in 1..(i - 1) : IsAuthFrame(conn[h].written[j], config)

----------------------------------------------------------------------------
(* The lifecycle of a Session: close(), a second start(), and a transport  *)
(* that closes by itself.                                                  *)

\* the state Open of section 4.2: the Session holds a transport handle whose
\* connection is open, and the open signal is set
IsOpen == ws # 0 /\ connected /\ conn[ws].state = "open"

\* the Session has been closed: close() or the peer has closed a connection
\* of it
SessionClosed == \E h \in DOMAIN conn : conn[h].by \in {"close", "peer"}

\* the Session is in the state Closed
IsClosed == SessionClosed /\ ~IsOpen

\* a transport of the Session has closed by itself and its _on_close has run
ClosedByPeer ==
    \E h \in DOMAIN conn : conn[h].by = "peer" /\ conn[h].loop = "ended"

(* C23: close() never fails.  On a Session never started it changes        *)
(* nothing, a second close() changes nothing either, and when close()      *)
(* returns the Session holds no transport handle and no thread reference.  *)
C23_CloseNeverFails ==
    [][\A t \in Owners :
          (call'[t].op = "close" /\ call'[t].at = "done" /\ call'[t] # call[t]) =>
              /\ call'[t].raised = ""
              /\ ws' = 0 /\ thread' = 0
              /\ (ws = 0 /\ thread = 0) => UNCHANGED <<ws, thread, connected, conn>>]_vars

(* C24: there is no transition from Closed to Open.  Once the Session has  *)
(* been closed, by close() or by a transport close, no start(), send_json, *)
(* ping, subscribe or callback makes it Open again or writes a frame.      *)
C24_NoReopen ==
    [][IsClosed => (~IsOpen' /\ TotalWritten(conn') = TotalWritten(conn))]_vars

(* C25: a transport that closes by itself has the open signal cleared      *)
(* before the on-close callback runs, and from then on no send_json or     *)
(* ping writes a frame: the call that was blocked waiting and every later  *)
(* call end in TimeoutError or in the not-started error.                   *)
C25_ClosedForGood ==
    [][/\ \A h \in DOMAIN conn' :
             conn'[h].loop = "ended" =>
                 \E i \in DOMAIN conn'[h].events :
                     /\ conn'[h].events[i] = "clear"
                     /\ \A j \in DOMAIN conn'[h].events :
                           conn'[h].events[j] = "on_close_user" => i < j
       /\ ClosedByPeer =>
             /\ TotalWritten(conn') = TotalWritten(conn)
             /\ \A t \in Owners :
                   (/\ call'[t].op \in {"send_json", "ping"}
                    /\ call'[t].at = "done" /\ call[t].at \in {"idle", "done", "wait"}
                    /\ call'[t] # call[t]) =>
                       call'[t].raised \in {TimeoutError, NotStartedError}]_vars

----------------------------------------------------------------------------
(* A delta with a gap, and a message without prevSeqNum.                   *)

(* C31: a delta on which a gap is detected is still fully applied: its     *)
(* levels are applied to both sides, out_of_sync is set, and seq_num and   *)
(* prev_seq_num are overwritten with the message's values; so the engine   *)
(* always holds the seqNum of the last applied message that carried one,   *)
(* gapped or not, and the next gap check compares against it.              *)
C31_GapStillApplied ==
    /\ (AppliedDelta /\ DeclaresGap) =>
          /\ IsApplied(last.pre.bids, LevelsOf(last.msg, "bids"), bids)
          /\ IsApplied(last.pre.asks, LevelsOf(last.msg, "asks"), asks)
          /\ out_of_sync
          /\ seq_num = SeqNumOf(last.msg)
          /\ prev_seq_num = PrevSeqNumOf(last.msg)
    /\ (~chain.first /\ chain.seqNum # None) => seq_num = chain.seqNum

\* a delta with a gap has changed the bids of an engine that was in sync,
\* and its seqNum has replaced the one held
C31_Witness ==
    /\ AppliedDelta /\ DeclaresGap
    /\ ~last.pre.out_of_sync
    /\ bids # last.pre.bids
    /\ LevelsOf(last.msg, "asks") # <<>>
    /\ seq_num = SeqNumOf(last.msg) /\ seq_num # last.pre.seq_num
    /\ seq_num # PrevSeqNumOf(last.msg)

(* C32: a relevant message that carries seqNum but no prevSeqNum never     *)
(* sets out_of_sync, whatever sequence number the engine holds; it sets    *)
(* seq_num to the message's seqNum and prev_seq_num to unset.              *)
C32_NoPrevNoGap ==
    (/\ AppliedSnapshot \/ AppliedDelta
     /\ SeqNumOf(last.msg) # None
     /\ PrevSeqNumOf(last.msg) = None) =>
        /\ out_of_sync => last.pre.out_of_sync
        /\ seq_num = SeqNumOf(last.msg)
        /\ prev_seq_num = None

\* a delta with seqNum and no prevSeqNum was applied to an engine in sync
\* that held another sequence number and a prev_seq_num
C32_Witness ==
    /\ AppliedDelta
    /\ SeqNumOf(last.msg) # None /\ PrevSeqNumOf(last.msg) = None
    /\ last.pre.seq_num # None /\ last.pre.prev_seq_num # None
    /\ SeqNumOf(last.msg) # last.pre.seq_num
    /\ ~last.pre.out_of_sync /\ ~out_of_sync
    /\ prev_seq_num = None

----------------------------------------------------------------------------
(* How a sending call ends.                                                *)

\* the thread is inside send_json or ping, or has just left it
Sending(t) == call[t].op \in {"send_json", "ping"}

\* the call never blocks for good: the wait ends when the signal is set or
\* when the timeout has elapsed, and the write ends at once
NeverBlocked(t) ==
    /\ call[t].at = "wait" => ENABLED (WaitOpen(t) \/ WaitTimeout(t))
    /\ call[t].at = "send" => ENABLED Send(t)

(* C33: every send_json and ping call with a finite timeout terminates     *)
(* under every interleaving with transport open, transport close and       *)
(* close(): it never blocks for good, and it ends by returning after it    *)
(* wrote its frame, in the not-started error or in TimeoutError.           *)
C33_Terminates ==
    \A t \in Callers :
        Sending(t) =>
            /\ NeverBlocked(t)
            /\ call[t].at = "done" =>
                  \/ call[t].raised = "" /\ call[t].wrote = <<call[t].text>>
                  \/ call[t].raised \in {NotStartedError, TimeoutError} /\ call[t].wrote = <<>>

(* C35: with send_json or ping in one thread and close() in another, the   *)
(* sending call ends in the not-started error, in TimeoutError, or by      *)
(* writing its frame to the handle it tested: once it has seen the signal  *)
(* set, its write finds the handle still in _ws, never one that close()    *)
(* has cleared, and puts the frame on that transport.  (Connections the    *)
(* peer has closed are left aside.)                                        *)
C35_NoClearedHandle ==
    [][\A t \in Callers :
          (/\ Sending(t) /\ call[t].at = "send" /\ call'[t].at = "done"
           /\ \A h \in DOMAIN conn : conn[h].by # "peer") =>
              /\ ws # 0
              /\ call'[t].raised = ""
              /\ conn'[ws].written = Append(conn[ws].written, call[t].text)]_vars

----------------------------------------------------------------------------
(* Sizes of the stored levels.                                             *)

\* the levels a read has returned
ReturnedLevels ==
    IF last.op = "levels" THEN {last.ret[i] : i \in DOMAIN last.ret}
    ELSE IF last.op \in {"best_bid", "best_ask"} /\ last.ret # None THEN {last.ret.v}
    ELSE {}

(* C34: no stored level has size zero: in every state reachable through    *)
(* process_message and reset, every price in bids or asks maps to a size   *)
(* other than 0, and levels(), best_bid() and best_ask() return no level   *)
(* of size zero.                                                           *)
C34_NoZeroSize ==
    /\ \A price \in DOMAIN bids : bids[price] # 0
    /\ \A price \in DOMAIN asks : asks[price] # 0
    /\ \A lvl \in ReturnedLevels : lvl.size # 0

\* a delta whose last entry for a held bid price has size zero was applied:
\* the price is gone, and another bid is still held
C34_Witness ==
    /\ Processed /\ IsForSymbol(last.msg, symbol) /\ IsDeltaMsg(last.msg)
    /\ \E price \in DOMAIN last.pre.bids \cap PricesIn(LevelsOf(last.msg, "bids")) :
          /\ LastSizeIn(LevelsOf(last.msg, "bids"), price) = 0
          /\ price \notin DOMAIN bids
    /\ bids # EmptyBook

----------------------------------------------------------------------------
(* The open signal and the receive loops of a Session that is closed and   *)
(* started again.                                                          *)

\* the connection of the handle was closed by the peer and its _on_close has
\* not run yet
AwaitsOnClose(h) == conn[h].by = "peer" /\ conn[h].loop # "ended"

(* C36: the open signal is set only while the Session holds a transport    *)
(* handle whose connection is open: it is not set in Idle or Connecting,   *)
(* it is clear once close() has returned, and the handle of a later        *)
(* start() does not inherit it from an earlier connection.  (The moment    *)
(* between a close by the peer and the _on_close that reports it is left   *)
(* aside.)                                                                 *)
C36_SignalOnlyWhileOpen ==
    connected =>
        /\ ws # 0
        /\ conn[ws].state = "open" \/ AwaitsOnClose(ws)

\* the receive loops that deliver: run_forever of the handle is reading
\* frames off an open connection and hands each to _on_message
LiveLoops == {h \in DOMAIN conn : conn[h].loop = "receiving" /\ conn[h].state = "open"}

(* C38: for any sequence of start() and close() calls on one Session, at   *)
(* most one receive loop delivers to the handler at any time; a second     *)
(* start() without close() does not leave two live loops.                  *)
C38_OneLoop == Cardinality(LiveLoops) <= 1

----------------------------------------------------------------------------
(* A delta before any snapshot.                                            *)

(* C37: after construction or reset(), a delta that is the first message   *)
(* applied, before any snapshot, is applied onto the empty sides and       *)
(* leaves out_of_sync false whatever its prevSeqNum; its sequence fields   *)
(* become the engine's.                                                    *)
C37_DeltaBeforeSnapshot ==
    [][(chain.first /\ AppliedDelta') =>
          /\ ~out_of_sync'
          /\ IsApplied(EmptyBook, LevelsOf(last'.msg, "bids"), bids')
          /\ IsApplied(EmptyBook, LevelsOf(last'.msg, "asks"), asks')
          /\ SeqNumOf(last'.msg) # None =>
                seq_num' = SeqNumOf(last'.msg) /\ prev_seq_num' = PrevSeqNumOf(last'.msg)]_vars

\* a delta from the middle of a feed (it declares a predecessor) was the
\* first message applied to a new or reset engine: the book is not empty,
\* out_of_sync is false, and no snapshot has been applied (the history is in
\* sequence although the engine held no sequence number, so the delta was
\* the first message of the history)
C37_Witness ==
    /\ AppliedDelta
    /\ last.pre = NewEngine(symbol)
    /\ SeqNumOf(last.msg) # None /\ PrevSeqNumOf(last.msg) # None
    /\ chain.inSequence
    /\ bids # EmptyBook /\ asks # EmptyBook
    /\ ~out_of_sync

----------------------------------------------------------------------------
(* A call of process_message that ends in an error.                        *)

(* C39: process_message is all-or-nothing: when a call ends in an error,   *)
(* bids, asks, seq_num, prev_seq_num and out_of_sync are as they were      *)
(* before the call; no prefix of the levels stays applied and no snapshot  *)
(* leaves the book cleared.                                                *)
C39_AllOrNothing ==
    (last.op = "process_message" /\ last.raised) => Engine = last.pre

----------------------------------------------------------------------------
(* The instrument named in the topic.                                      *)

\* the side a snapshot or a delta starts from
BaseOf(msg, side) == IF IsSnapshotMsg(msg) THEN EmptyBook ELSE side

(* C40: the engine filters by data.symbol only, never by the symbol named  *)
(* in the topic: a relevant message whose data has no symbol field, or an  *)
(* empty one, is applied to the engine's book and sequence fields whatever *)
(* instrument its topic names, and so is one whose data names the engine's *)
(* symbol under the topic of another instrument.                           *)
C40_TopicSymbolUnchecked ==
    (/\ last.op = "process_message"
     /\ IsForSymbol(last.msg, symbol)
     /\ IsSnapshotMsg(last.msg) \/ IsDeltaMsg(last.msg)) =>
        /\ ~last.raised
        /\ IsApplied(BaseOf(last.msg, last.pre.bids), LevelsOf(last.msg, "bids"), bids)
        /\ IsApplied(BaseOf(last.msg, last.pre.asks), LevelsOf(last.msg, "asks"), asks)
        /\ SeqNumOf(last.msg) # None =>
              seq_num = SeqNumOf(last.msg) /\ prev_seq_num = PrevSeqNumOf(last.msg)

\* a delta without symbol field on the update topic of another instrument
\* has changed the book and the sequence number of this engine
C40_Witness ==
    /\ last.op = "process_message" /\ ~last.raised
    /\ last.msg.v.topic = TopicUpdateOther
    /\ last.msg.v.data.t = "dict"
    /\ DataOf(last.msg).symbol = None
    /\ IsDeltaMsg(last.msg)
    /\ bids # last.pre.bids
    /\ SeqNumOf(last.msg) # None /\ seq_num = SeqNumOf(last.msg)
    /\ seq_num # last.pre.seq_num

====
